---------------------------- MODULE Spec2Model ----------------------------
(***************************************************************************)
(* Kanakkuvazhakku: identity, persistence and ledger-lifecycle layer of    *)
(* the DataProvider (src/contexts/DataContext.tsx) with the cipher of      *)
(* utils/security (src/unnamed/part_000).                                  *)
(*                                                                         *)
(* In-memory React state and the localStorage / sessionStorage slots are   *)
(* separate variables.  Every handler is one action; the save effects that *)
(* React runs after a handler changed a collection are part of the action. *)
(* Asynchronous callbacks (FileReader.onload) are actions of their own.    *)
(*                                                                         *)
(* Dates are ISO calendar days "YYYY-MM-DD" written as the integer         *)
(* YYYYMMDD, whose order is the lexicographic order the code compares by.  *)
(* ids (crypto.randomUUID) are drawn from a counter, so they are fresh.    *)
(***************************************************************************)
EXTENDS Integers, Sequences, FiniteSets, TLC

(* ------------------------------ bounds -------------------------------- *)
\* total number of ledger records ever created (ids handed out)
MaxIds == 3
\* number of profiles ever created on the device
MaxUsers == 2
\* ids handed out in the backup specification, which also carries a snapshot
MaxBackupIds == 2
\* chat messages kept in one session
MaxChat == 2
\* longest string value put through the cipher, in code points
MaxTextLen == 16

(* --------------------------- input domains ---------------------------- *)
\* the days the clock steps through, in order
Calendar == <<20240120, 20240229, 20240302>>
BudgetCategories == {"Food", "Transport", "Other"}
Limits == {0, 50, 80}
Identifiers == {"a@b.com", "c@d.com", "9876543210"}
Emails == {"a@b.com", "c@d.com"}
Mobiles == {"9876543210"}
Passwords == {"Passw0rd!", "Secr3t_pw"}

(* ----------------------- absent / null values ------------------------- *)
\* tenantContact: undefined (a key that JSON.stringify drops)
NoContact == "-"
\* a user id that is null / undefined / a removed storage item
NoUser == ""
\* userProfile === null
NoProfile == [id |-> NoUser]
\* localStorage.getItem(...) === null
NoItem == [absent |-> TRUE]
\* decryptData(...) === null
Null == [null |-> TRUE]

VARIABLES
    \* React state of DataProvider
    expenses, incomes, budgets,
    isAuthenticated, isOnboardingComplete, loginIdentifier, userProfile, authError,
    chatHistory,
    \* React state of the history screen: the expense its undo toast offers
    deletedItem,
    \* localStorage slots
    lsExpenses, lsIncomes, lsBudgets,
    lsIdentityMap, lsProfiles, lsCurrentUserId,
    \* sessionStorage slot kanakku_is_authenticated
    ssAuth,
    \* environment: the current UTC day, the uuid source, the millisecond clock
    dayIndex, nextId, nextUserId, clock,
    \* the backup file last delivered, a FileReader read in flight, and (history)
    \* the ledger as it was when that backup was taken
    backupFile, pendingImport, backupLog,
    \* the WebAuthn request in flight (navigator.credentials.create / get)
    ceremony,
    \* a text put through encryptData and decryptData: the text, the
    \* ciphertext and the text read back
    cipherRun,
    \* history: the ids markIncomeReceived was applied to, ever and since an
    \* import or restore last replaced the incomes collection
    receivedLog,
    \* the last handler that ran, with its return value
    lastCall,
    \* history: what setBudget was last called with, the last signup
    budgetLog, signupLog

ledgerMem == <<expenses, incomes, budgets>>
ledgerSlots == <<lsExpenses, lsIncomes, lsBudgets>>
authMem == <<isAuthenticated, isOnboardingComplete, loginIdentifier, userProfile, authError>>
authSlots == <<lsIdentityMap, lsProfiles, lsCurrentUserId, ssAuth>>
envVars == <<dayIndex, nextId, nextUserId, clock>>
fileVars == <<backupFile, pendingImport, backupLog>>
vars == <<ledgerMem, ledgerSlots, authMem, authSlots, envVars, fileVars,
          chatHistory, deletedItem, ceremony, cipherRun, receivedLog, lastCall, budgetLog,
          signupLog>>

(* ------------------------------ dates --------------------------------- *)
YearOf(d) == d \div 10000
MonthOf(d) == (d \div 100) % 100
DayOf(d) == d % 100
MkDate(y, m, d) == y * 10000 + m * 100 + d

IsLeapYear(y) == (y % 4 = 0 /\ y % 100 # 0) \/ y % 400 = 0

DaysInMonth(y, m) ==
    IF m = 2 THEN (IF IsLeapYear(y) THEN 29 ELSE 28)
    ELSE IF m \in {4, 6, 9, 11} THEN 30 ELSE 31

\* Date field normalisation of the JS Date object: a month past December
\* carries into the year, a day past the end of the month carries into the
\* following month.
NormalizeDate(y, m, d) ==
    LET y1 == IF m > 12 THEN y + 1 ELSE y
        m1 == IF m > 12 THEN m - 12 ELSE m
        dim == DaysInMonth(y1, m1)
    IN  IF d <= dim THEN MkDate(y1, m1, d)
        ELSE IF m1 = 12 THEN MkDate(y1 + 1, 1, d - dim)
        ELSE MkDate(y1, m1 + 1, d - dim)

\* nextDate.setMonth(nextDate.getMonth() + 1)
SetMonthPlusOne(d) == NormalizeDate(YearOf(d), MonthOf(d) + 1, DayOf(d))

\* nextDate.setFullYear(nextDate.getFullYear() + 1)
SetFullYearPlusOne(d) == NormalizeDate(YearOf(d) + 1, MonthOf(d), DayOf(d))

\* new Date().toISOString().split('T')[0]
today == Calendar[dayIndex]

(* ---------------------------- sequences ------------------------------- *)
Range(s) == {s[k] : k \in 1..Len(s)}

\* prev.find(i => i.id === id): the position of the first record with that
\* id, 0 when there is none
IndexOfId(s, id) ==
    IF \E k \in 1..Len(s) : s[k].id = id
    THEN CHOOSE k \in 1..Len(s) : s[k].id = id /\ \A j \in 1..(k - 1) : s[j].id # id
    ELSE 0

(* ------------------------------ Init ---------------------------------- *)
\* The state after the first mount on a device with empty storage: the load
\* effect found nothing, the save effects wrote the three empty arrays.
Init ==
    /\ expenses = <<>> /\ incomes = <<>> /\ budgets = <<>>
    /\ isAuthenticated = FALSE /\ isOnboardingComplete = FALSE
    /\ loginIdentifier = "" /\ userProfile = NoProfile /\ authError = ""
    /\ chatHistory = <<>>
    /\ lsExpenses = <<>> /\ lsIncomes = <<>> /\ lsBudgets = <<>>
    /\ lsIdentityMap = <<>> /\ lsProfiles = NoItem /\ lsCurrentUserId = NoUser
    /\ ssAuth = FALSE
    /\ dayIndex = 1 /\ nextId = 1 /\ nextUserId = 1 /\ clock = 1
    /\ backupFile = NoItem /\ pendingImport = NoItem /\ backupLog = NoItem
    /\ ceremony = NoItem
    /\ deletedItem = NoItem
    /\ receivedLog = [ever |-> {}, sinceReplaced |-> {}]
    /\ cipherRun = [text |-> <<>>, cipher |-> <<>>,
                   decoded |-> [done |-> FALSE, null |-> FALSE, value |-> <<>>]]
    /\ lastCall = [op |-> "mount", ok |-> TRUE, err |-> ""]
    /\ budgetLog = <<>> /\ signupLog = NoItem

Returned(op, ok, err) == lastCall' = [op |-> op, ok |-> ok, err |-> err]

(* ----------------------------- incomes -------------------------------- *)
\* a status that is Overdue whatever the due date
InitialStatus_AlwaysOverdue(date, now) == "Overdue"

\* status: income.date < today ? 'Overdue' : 'Expected'
InitialStatus(date, now) == IF date < now THEN "Overdue" ELSE "Expected"

\* addIncome: the new record goes first
AddIncome(amount, category, source, date, recurrence, contact) ==
    /\ nextId <= MaxIds
    /\ LET newIncome == [id |-> nextId, amount |-> amount, category |-> category,
                         source |-> source, date |-> date, recurrence |-> recurrence,
                         status |-> InitialStatus(date, today),
                         tenantContact |-> contact, createdAt |-> clock]
       IN  incomes' = <<newIncome>> \o incomes
    /\ lsIncomes' = incomes'
    /\ nextId' = nextId + 1 /\ clock' = clock + 1
    /\ Returned("addIncome", TRUE, "")
    /\ UNCHANGED <<deletedItem, receivedLog, cipherRun, ceremony, chatHistory, expenses, budgets, lsExpenses, lsBudgets, authMem, authSlots,
                   dayIndex, nextUserId, fileVars, budgetLog, signupLog>>

\* prev.filter(i => i.id !== id)
WithoutId(s, id) == LET Keep(r) == r.id # id IN SelectSeq(s, Keep)

DeleteIncome(id) ==
    /\ incomes' = WithoutId(incomes, id)
    /\ lsIncomes' = incomes'
    /\ Returned("deleteIncome", TRUE, "")
    /\ UNCHANGED <<deletedItem, receivedLog, cipherRun, ceremony, chatHistory, expenses, budgets, lsExpenses, lsBudgets, authMem, authSlots,
                   envVars, fileVars, budgetLog, signupLog>>

\* the due date of the next cycle, computed from the original due date
NextDueDate(date, recurrence) ==
    IF recurrence = "Monthly" THEN SetMonthPlusOne(date)
    ELSE IF recurrence = "Yearly" THEN SetFullYearPlusOne(date)
    ELSE date

\* { ...income, status: 'Received', date: today }
ReceivedCopy(income, now) == [income EXCEPT !.status = "Received", !.date = now]

\* a next occurrence that inherits the status of the original (no status override)
NextOccurrence_KeepsStatus(income, newId, stamp) ==
    [income EXCEPT !.id = newId, !.date = NextDueDate(income.date, income.recurrence),
                   !.createdAt = stamp]

\* { ...income, id: uuid, date: nextDate, status: 'Expected', createdAt: now }
NextOccurrence(income, newId, stamp) ==
    [income EXCEPT !.id = newId, !.date = NextDueDate(income.date, income.recurrence),
                   !.status = "Expected", !.createdAt = stamp]

\* an updater that rewrites the record where it stands
MarkReceivedResult_InPlace(prev, id, newId, now, stamp) ==
    LET k == IndexOfId(prev, id)
    IN  IF k = 0 THEN prev
        ELSE LET income == prev[k]
                 updated == [prev EXCEPT ![k] = ReceivedCopy(income, now)]
             IN  IF income.recurrence # "None"
                 THEN <<NextOccurrence(income, newId, stamp)>> \o updated
                 ELSE updated

\* the array markIncomeReceived's updater returns
MarkReceivedResult(prev, id, newId, now, stamp) ==
    LET k == IndexOfId(prev, id)
    IN  IF k = 0 THEN prev
        ELSE LET income == prev[k]
                 others == WithoutId(prev, id)
             IN  IF income.recurrence # "None"
                 THEN <<NextOccurrence(income, newId, stamp), ReceivedCopy(income, now)>> \o others
                 ELSE <<ReceivedCopy(income, now)>> \o others

MarkIncomeReceived(id) ==
    LET k == IndexOfId(incomes, id)
        generates == k # 0 /\ incomes[k].recurrence # "None"
    IN  /\ generates => nextId <= MaxIds
        /\ incomes' = MarkReceivedResult(incomes, id, nextId, today, clock)
        /\ lsIncomes' = incomes'
        /\ nextId' = IF generates THEN nextId + 1 ELSE nextId
        /\ clock' = IF generates THEN clock + 1 ELSE clock
        /\ Returned("markIncomeReceived", k # 0, "")
        /\ receivedLog' = IF k = 0 THEN receivedLog
                          ELSE [ever |-> receivedLog.ever \cup {id},
                                sinceReplaced |-> receivedLog.sinceReplaced \cup {id}]
        /\ UNCHANGED <<deletedItem, cipherRun, ceremony, chatHistory, expenses, budgets, lsExpenses, lsBudgets, authMem, authSlots,
                       dayIndex, nextUserId, fileVars, budgetLog, signupLog>>

(* ------------------------------ clock --------------------------------- *)
\* midnight UTC passes
AdvanceDay ==
    /\ dayIndex < Len(Calendar)
    /\ dayIndex' = dayIndex + 1
    /\ Returned("advanceDay", TRUE, "")
    /\ UNCHANGED <<deletedItem, receivedLog, cipherRun, ceremony, chatHistory, ledgerMem, ledgerSlots, authMem, authSlots, nextId, nextUserId, clock,
                   fileVars, budgetLog, signupLog>>

(* ------------------------------ cipher -------------------------------- *)
\* encryptData: JSON text, XOR with the fixed key, base64.  The ciphertext is
\* kept as an opaque wrapper of the JSON value it carries.
EncryptData(data) == [cipher |-> data]

\* decryptData: null for an empty or unreadable string
DecryptData(encrypted) ==
    IF "cipher" \in DOMAIN encrypted THEN encrypted.cipher ELSE Null

(* --------------------------- mount / load ----------------------------- *)
\* an overdue check that also flips a record due today
ReconcileOverdue_DueToday(stored, now) ==
    [k \in 1..Len(stored) |->
        IF stored[k].status = "Expected" /\ stored[k].date <= now
        THEN [stored[k] EXCEPT !.status = "Overdue"]
        ELSE stored[k]]

\* the overdue check of the load effect
ReconcileOverdue(stored, now) ==
    [k \in 1..Len(stored) |->
        IF stored[k].status = "Expected" /\ stored[k].date < now
        THEN [stored[k] EXCEPT !.status = "Overdue"]
        ELSE stored[k]]

\* the profile the load effect restores for the stored current user id
StoredProfile(userId) ==
    IF userId = NoUser \/ lsProfiles = NoItem THEN NoProfile
    ELSE LET decrypted == DecryptData(lsProfiles)
             profiles == IF decrypted = Null THEN <<>> ELSE decrypted
         IN  IF userId \in DOMAIN profiles THEN profiles[userId] ELSE NoProfile

\* DataProvider mounts: state starts from its defaults, the load effect reads
\* the slots, the save effects write the collections back.
\* a save effect that only runs for the first render of a mount
SaveEffectWrites_FirstRenderOnly(initial, loaded) == <<initial>>

\* what the save effect of one collection writes over a mount: the state of
\* the first render (useState's initial value), then, after the re-render the
\* load effect's setState causes, the loaded state
SaveEffectWrites(initial, loaded) == <<initial, loaded>>

\* the slot after a run of localStorage.setItem calls on it
SlotAfter(writes) == writes[Len(writes)]

\* the provider mounts: the load effect reads the slots, then the save effects
\* run for the initial render and again for the loaded state
Mount(sessionFlag) ==
    /\ expenses' = lsExpenses
    /\ incomes' = ReconcileOverdue(lsIncomes, today)
    /\ budgets' = lsBudgets
    /\ lsExpenses' = SlotAfter(SaveEffectWrites(<<>>, expenses'))
    /\ lsIncomes' = SlotAfter(SaveEffectWrites(<<>>, incomes'))
    /\ lsBudgets' = SlotAfter(SaveEffectWrites(<<>>, budgets'))
    /\ isAuthenticated' = sessionFlag
    /\ userProfile' = IF sessionFlag THEN StoredProfile(lsCurrentUserId) ELSE NoProfile
    /\ isOnboardingComplete' = (userProfile' # NoProfile)
    /\ loginIdentifier' = "" /\ authError' = ""
    /\ ssAuth' = sessionFlag
    /\ pendingImport' = NoItem
    /\ Returned("load", incomes' # lsIncomes, "")
    /\ chatHistory' = <<>>
    /\ deletedItem' = NoItem
    /\ ceremony' = NoItem
    /\ UNCHANGED <<receivedLog, cipherRun, lsIdentityMap, lsProfiles, lsCurrentUserId, envVars, backupFile, backupLog,
                   budgetLog, signupLog>>

\* the page is reloaded in the same tab: sessionStorage survives
ReloadApp == Mount(ssAuth)

\* a reopen that finds the session flag still set
ReopenApp_KeepsSession == Mount(ssAuth)

\* the tab is closed and the app opened again: sessionStorage is gone
ReopenApp == Mount(FALSE)

(* --------------------------- identity store --------------------------- *)
\* crypto.randomUUID() for the n-th profile created on the device
UserIdOf(n) == "u" \o ToString(n)

\* obj[key] = value on a parsed JSON object
Put(f, key, value) == [x \in DOMAIN f \cup {key} |-> IF x = key THEN value ELSE f[x]]

\* identityMap[identifier]: undefined (NoUser) for a missing key
IdentityLookup(map, identifier) ==
    IF identifier \in DOMAIN map THEN map[identifier] ELSE NoUser

\* a check that never finds the identifier
IdentifierTaken_Never(identifier) == FALSE

\* if (identityMap[identifier]) in startSignup, !!identityMap[identifier] in
\* checkUserExists
IdentifierTaken(identifier) == IdentityLookup(lsIdentityMap, identifier) # NoUser

\* the decrypted profile map, {} when the slot was never written
ProfilesOf(slot) == IF slot = NoItem THEN <<>> ELSE DecryptData(slot)

\* decryptData(encryptedProfiles) is an object that can be indexed
ProfileStoreReadable == lsProfiles = NoItem \/ DecryptData(lsProfiles) # Null

(* ----------------------------- auth session --------------------------- *)
\* App.tsx routing: which screen, and so which handlers, the user can reach
LoginScreenShown == ~isAuthenticated
OnboardingScreenShown == isAuthenticated /\ ~isOnboardingComplete
MainAppShown == isAuthenticated /\ isOnboardingComplete

\* a signup that leaves the stored active user id in place
StartSignup_KeepsActiveUser(identifier) ==
    /\ authError' = ""
    /\ IF IdentifierTaken(identifier)
       THEN /\ Returned("startSignup", FALSE, "")
            /\ UNCHANGED <<isAuthenticated, isOnboardingComplete, loginIdentifier,
                           userProfile, ssAuth, signupLog>>
       ELSE /\ loginIdentifier' = identifier
            /\ userProfile' = NoProfile
            /\ isOnboardingComplete' = FALSE
            /\ isAuthenticated' = TRUE
            /\ ssAuth' = TRUE
            /\ signupLog' = [identifier |-> identifier, password |-> "", userId |-> NoUser]
            /\ Returned("startSignup", TRUE, "")
    /\ UNCHANGED <<deletedItem, receivedLog, cipherRun, ceremony, chatHistory, ledgerMem, ledgerSlots, lsIdentityMap, lsProfiles,
                   lsCurrentUserId, envVars, fileVars, budgetLog>>

StartSignup(identifier) ==
    /\ authError' = ""
    /\ IF IdentifierTaken(identifier)
       THEN /\ Returned("startSignup", FALSE, "")
            /\ UNCHANGED <<isAuthenticated, isOnboardingComplete, loginIdentifier,
                           userProfile, ssAuth, lsCurrentUserId, signupLog>>
       ELSE /\ loginIdentifier' = identifier
            /\ userProfile' = NoProfile
            /\ isOnboardingComplete' = FALSE
            /\ isAuthenticated' = TRUE
            /\ ssAuth' = TRUE
            /\ lsCurrentUserId' = NoUser
            /\ signupLog' = [identifier |-> identifier, password |-> "", userId |-> NoUser]
            /\ Returned("startSignup", TRUE, "")
    /\ UNCHANGED <<deletedItem, receivedLog, cipherRun, ceremony, chatHistory, ledgerMem, ledgerSlots, lsIdentityMap, lsProfiles, envVars, fileVars,
                   budgetLog>>

\* the profile completeOnboarding builds from the form's details
NewProfile(newUserId, name, mobile, email, password) ==
    [id |-> newUserId,
     name |-> IF name = "" THEN "User" ELSE name,
     email |-> email, mobile |-> mobile,
     language |-> "en", currency |-> "INR",
     password |-> password,
     biometricEnabled |-> FALSE, biometricCredentialId |-> ""]

\* "Link Identifiers": mobile, email, then the login identifier if still unbound
LinkIdentifiers(map, profile, current) ==
    LET m1 == IF profile.mobile # "" THEN Put(map, profile.mobile, profile.id) ELSE map
        m2 == IF profile.email # "" THEN Put(m1, profile.email, profile.id) ELSE m1
    IN  IF current # "" /\ IdentityLookup(m2, current) = NoUser
        THEN Put(m2, current, profile.id)
        ELSE m2

\* completeOnboarding; with a profile slot that decodes to null,
\* profiles[newUserId] = newProfile throws before anything is written
CompleteOnboarding(name, mobile, email, password) ==
    /\ nextUserId <= MaxUsers
    /\ IF ProfileStoreReadable
       THEN /\ LET newProfile == NewProfile(UserIdOf(nextUserId), name, mobile, email,
                                            password)
               IN  /\ lsProfiles' = EncryptData(Put(ProfilesOf(lsProfiles), newProfile.id,
                                                    newProfile))
                   /\ lsIdentityMap' = LinkIdentifiers(lsIdentityMap, newProfile,
                                                       loginIdentifier)
                   /\ lsCurrentUserId' = newProfile.id
                   /\ userProfile' = newProfile
            /\ isAuthenticated' = TRUE
            /\ ssAuth' = TRUE
            /\ isOnboardingComplete' = TRUE
            /\ nextUserId' = nextUserId + 1
            /\ signupLog' = IF signupLog = NoItem THEN signupLog
                            ELSE [signupLog EXCEPT !.password = password,
                                                   !.userId = UserIdOf(nextUserId)]
            /\ Returned("completeOnboarding", TRUE, "")
       ELSE /\ Returned("completeOnboarding", FALSE, "TypeError")
            /\ UNCHANGED <<lsProfiles, lsIdentityMap, lsCurrentUserId, userProfile,
                           isAuthenticated, ssAuth, isOnboardingComplete, nextUserId,
                           signupLog>>
    /\ UNCHANGED <<deletedItem, receivedLog, cipherRun, ceremony, chatHistory, ledgerMem, ledgerSlots, loginIdentifier, authError,
                   dayIndex, nextId, clock, fileVars, budgetLog>>

\* what login(identifier, password) answers for the current storage; with a
\* profile slot that decodes to null, profiles[existingUserId] throws
LoginOutcome(identifier, password) ==
    LET existingUserId == IdentityLookup(lsIdentityMap, identifier)
        profiles == ProfilesOf(lsProfiles)
    IN  IF existingUserId # NoUser /\ lsProfiles # NoItem /\ profiles = Null
        THEN "TypeError"
        ELSE IF existingUserId # NoUser /\ lsProfiles # NoItem
                   /\ existingUserId \in DOMAIN profiles
        THEN IF profiles[existingUserId].password = password
             THEN "ok" ELSE "Invalid credentials"
        ELSE "User not found"

\* a login that records the looked-up user id before the password is checked
ActiveUserAfterLogin_Early(outcome, existingUserId) ==
    IF outcome = "User not found" THEN lsCurrentUserId ELSE existingUserId

\* localStorage.setItem(STORAGE_KEY_CURRENT_USER_ID, existingUserId) runs only
\* in the success branch
ActiveUserAfterLogin(outcome, existingUserId) ==
    IF outcome = "ok" THEN existingUserId ELSE lsCurrentUserId

Login(identifier, password) ==
    LET existingUserId == IdentityLookup(lsIdentityMap, identifier)
        outcome == LoginOutcome(identifier, password)
    IN  /\ loginIdentifier' = identifier
        /\ lsCurrentUserId' = ActiveUserAfterLogin(outcome, existingUserId)
        /\ IF outcome = "ok"
           THEN /\ userProfile' = ProfilesOf(lsProfiles)[existingUserId]
                /\ isOnboardingComplete' = TRUE
                /\ isAuthenticated' = TRUE
                /\ ssAuth' = TRUE
                /\ authError' = ""
                /\ Returned("login", TRUE, "")
           ELSE /\ authError' = IF outcome = "TypeError" THEN "" ELSE outcome
                /\ Returned("login", FALSE, outcome)
                /\ UNCHANGED <<userProfile, isOnboardingComplete, isAuthenticated, ssAuth>>
        /\ UNCHANGED <<deletedItem, receivedLog, cipherRun, ceremony, chatHistory, ledgerMem, ledgerSlots, lsIdentityMap, lsProfiles, envVars, fileVars,
                       budgetLog, signupLog>>

\* a logout that also empties the ledger
Logout_ClearsLedger ==
    /\ isAuthenticated' = FALSE
    /\ isOnboardingComplete' = FALSE
    /\ userProfile' = NoProfile
    /\ ssAuth' = FALSE
    /\ lsCurrentUserId' = NoUser
    /\ chatHistory' = <<>>
    /\ deletedItem' = NoItem
    /\ expenses' = <<>> /\ incomes' = <<>> /\ budgets' = <<>>
    /\ lsExpenses' = <<>> /\ lsIncomes' = <<>> /\ lsBudgets' = <<>>
    /\ Returned("logout", TRUE, "")
    /\ UNCHANGED <<receivedLog, cipherRun, ceremony, loginIdentifier, authError, lsIdentityMap,
                   lsProfiles, envVars, fileVars, budgetLog, signupLog>>

Logout ==
    /\ isAuthenticated' = FALSE
    /\ isOnboardingComplete' = FALSE
    /\ userProfile' = NoProfile
    /\ ssAuth' = FALSE
    /\ lsCurrentUserId' = NoUser
    /\ Returned("logout", TRUE, "")
    /\ chatHistory' = <<>>
    /\ deletedItem' = NoItem
    /\ UNCHANGED <<receivedLog, cipherRun, ceremony, ledgerMem, ledgerSlots, loginIdentifier, authError, lsIdentityMap,
                   lsProfiles, envVars, fileVars, budgetLog, signupLog>>

(* --------------------------- password reset --------------------------- *)
\* a reset that writes the new password into every stored profile
ProfilesAfterReset_AllUsers(profiles, userId, newPassword) ==
    [u \in DOMAIN profiles |-> [profiles[u] EXCEPT !.password = newPassword]]

\* profiles[userId].password = newPassword
ProfilesAfterReset(profiles, userId, newPassword) ==
    [profiles EXCEPT ![userId].password = newPassword]

\* resetPassword(identifier, newPassword)
ResetPassword(identifier, newPassword) ==
    LET userId == IdentityLookup(lsIdentityMap, identifier)
        profiles == ProfilesOf(lsProfiles)
    IN  /\ IF \/ userId = NoUser
              \/ lsProfiles = NoItem
              \/ profiles = Null
              \/ userId \notin DOMAIN profiles
           THEN /\ Returned("resetPassword", FALSE, "")
                /\ UNCHANGED lsProfiles
           ELSE /\ lsProfiles' = EncryptData(ProfilesAfterReset(profiles, userId, newPassword))
                /\ Returned("resetPassword", TRUE, "")
        /\ UNCHANGED <<deletedItem, receivedLog, cipherRun, ledgerMem, ledgerSlots, authMem, lsIdentityMap, lsCurrentUserId, ssAuth,
                       envVars, fileVars, chatHistory, ceremony, budgetLog, signupLog>>

\* The profile slot is changed from outside the application (site data edited
\* or partly removed): it becomes undecodable text, is removed, or decodes to
\* an object without entries.
ProfileSlotDamaged(how) ==
    /\ lsProfiles # NoItem
    /\ lsProfiles' = IF how = "undecodable" THEN [garbage |-> TRUE]
                     ELSE IF how = "removed" THEN NoItem
                     ELSE EncryptData(<<>>)
    /\ lsProfiles' # lsProfiles
    /\ Returned("storage", TRUE, how)
    /\ UNCHANGED <<deletedItem, receivedLog, cipherRun, ledgerMem, ledgerSlots, authMem, lsIdentityMap, lsCurrentUserId, ssAuth,
                   envVars, fileVars, chatHistory, ceremony, budgetLog, signupLog>>

(* ----------------------------- biometrics ----------------------------- *)
\* btoa of credential.rawId: the credential the platform made for the user
CredentialIdOf(userId) == "cred-" \o userId

IsCreateCeremony == "kind" \in DOMAIN ceremony /\ ceremony.kind = "create"
IsGetCeremony == "kind" \in DOMAIN ceremony /\ ceremony.kind = "get"

\* handleBiometricToggle, "Disable": updateProfileState with the flag cleared;
\* the credential id stays in the profile
DisableBiometric ==
    /\ userProfile # NoProfile /\ userProfile.biometricEnabled
    /\ userProfile' = [userProfile EXCEPT !.biometricEnabled = FALSE]
    /\ IF ProfileStoreReadable
       THEN /\ lsProfiles' = EncryptData(Put(ProfilesOf(lsProfiles), userProfile.id,
                                             userProfile'))
            /\ Returned("updateProfileState", TRUE, "")
       ELSE /\ Returned("updateProfileState", FALSE, "TypeError")
            /\ UNCHANGED lsProfiles
    /\ UNCHANGED <<deletedItem, receivedLog, cipherRun, ledgerMem, ledgerSlots, isAuthenticated, isOnboardingComplete,
                   loginIdentifier, authError, lsIdentityMap, lsCurrentUserId, ssAuth,
                   envVars, fileVars, chatHistory, ceremony, budgetLog, signupLog>>

\* updateProfileState(profile) from a settings handler: the in-memory profile
\* first, then the entry of the encrypted profile store
UpdateProfileState(op, profile) ==
    /\ userProfile' = profile
    /\ IF ProfileStoreReadable
       THEN /\ lsProfiles' = EncryptData(Put(ProfilesOf(lsProfiles), profile.id, profile))
            /\ Returned(op, TRUE, "")
       ELSE /\ Returned(op, FALSE, "TypeError")
            /\ UNCHANGED lsProfiles
    /\ UNCHANGED <<deletedItem, receivedLog, cipherRun, ledgerMem, ledgerSlots, isAuthenticated, isOnboardingComplete,
                   loginIdentifier, authError, lsIdentityMap, lsCurrentUserId, ssAuth,
                   envVars, fileVars, chatHistory, ceremony, budgetLog, signupLog>>

\* setUserName(name): a no-op without a loaded profile
SetUserName(name) ==
    /\ userProfile # NoProfile
    /\ UpdateProfileState("setUserName", [userProfile EXCEPT !.name = name])

\* setCurrency(symbol)
SetCurrency(symbol) ==
    /\ userProfile # NoProfile
    /\ UpdateProfileState("setCurrency", [userProfile EXCEPT !.currency = symbol])

\* registerBiometric up to the await: navigator.credentials.create is asked
\* for a credential; the continuation holds the userProfile of this render
RegisterBiometric ==
    /\ ceremony = NoItem
    /\ IF userProfile = NoProfile
       THEN /\ Returned("registerBiometric", FALSE, "")
            /\ UNCHANGED ceremony
       ELSE /\ ceremony' = [kind |-> "create", profile |-> userProfile]
            /\ Returned("registerBiometric", TRUE, "pending")
    /\ UNCHANGED <<deletedItem, receivedLog, cipherRun, ledgerMem, ledgerSlots, authMem, authSlots, envVars, fileVars,
                   chatHistory, budgetLog, signupLog>>

\* registerBiometric after the await: a credential, or null / an exception
RegisterBiometricResult(created) ==
    /\ IsCreateCeremony
    /\ ceremony' = NoItem
    /\ IF created
       THEN LET updatedProfile ==
                    [ceremony.profile EXCEPT !.biometricEnabled = TRUE,
                         !.biometricCredentialId = CredentialIdOf(ceremony.profile.id)]
            IN  /\ userProfile' = updatedProfile
                /\ IF ProfileStoreReadable
                   THEN /\ lsProfiles' = EncryptData(Put(ProfilesOf(lsProfiles),
                                                         updatedProfile.id, updatedProfile))
                        /\ Returned("registerBiometric", TRUE, "")
                   ELSE /\ Returned("registerBiometric", FALSE, "TypeError caught")
                        /\ UNCHANGED lsProfiles
       ELSE /\ Returned("registerBiometric", FALSE, "")
            /\ UNCHANGED <<userProfile, lsProfiles>>
    /\ UNCHANGED <<deletedItem, receivedLog, cipherRun, ledgerMem, ledgerSlots, isAuthenticated, isOnboardingComplete,
                   loginIdentifier, authError, lsIdentityMap, lsCurrentUserId, ssAuth,
                   envVars, fileVars, chatHistory, budgetLog, signupLog>>

\* profiles[userId] for the user the identifier is bound to; NoProfile when
\* the identifier, the slot or the entry is missing
BoundProfile(identifier) ==
    LET userId == IdentityLookup(lsIdentityMap, identifier)
    IN  IF userId = NoUser \/ lsProfiles = NoItem THEN NoProfile
        ELSE LET profiles == DecryptData(lsProfiles)
             IN  IF userId \in DOMAIN profiles THEN profiles[userId] ELSE NoProfile

\* a check that asks only for a credential id
BiometricUsable_IgnoresFlag(profile) ==
    profile # NoProfile /\ profile.biometricCredentialId # ""

\* profile && profile.biometricEnabled && profile.biometricCredentialId
BiometricUsable(profile) ==
    profile # NoProfile /\ profile.biometricEnabled /\ profile.biometricCredentialId # ""

\* checkBiometricAvailability(identifier)
CheckBiometricAvailability(identifier) == BiometricUsable(BoundProfile(identifier))

\* the login screen's effect calls checkBiometricAvailability(identifier):
\* with a profile slot that decodes to null, profiles[userId] throws
CheckBiometric(identifier) ==
    /\ IF /\ IdentityLookup(lsIdentityMap, identifier) # NoUser
          /\ lsProfiles # NoItem
          /\ DecryptData(lsProfiles) = Null
       THEN Returned("checkBiometricAvailability", FALSE, "TypeError")
       ELSE Returned("checkBiometricAvailability",
                     CheckBiometricAvailability(identifier), "")
    /\ UNCHANGED <<deletedItem, receivedLog, cipherRun, ceremony, ledgerMem, ledgerSlots,
                   authMem, authSlots, envVars, fileVars, chatHistory, budgetLog,
                   signupLog>>

\* verifyBiometricLogin up to the await: the early returns, then
\* navigator.credentials.get is asked for an assertion
VerifyBiometricLogin(identifier) ==
    /\ ceremony = NoItem
    /\ LET userId == IdentityLookup(lsIdentityMap, identifier)
       IN  IF userId = NoUser \/ lsProfiles = NoItem
           THEN /\ Returned("verifyBiometricLogin", FALSE, "")
                /\ UNCHANGED ceremony
           ELSE IF DecryptData(lsProfiles) = Null
           THEN /\ Returned("verifyBiometricLogin", FALSE, "TypeError")
                /\ UNCHANGED ceremony
           ELSE IF ~BiometricUsable(BoundProfile(identifier))
           THEN /\ Returned("verifyBiometricLogin", FALSE, "")
                /\ UNCHANGED ceremony
           ELSE /\ ceremony' = [kind |-> "get", userId |-> userId,
                                profile |-> BoundProfile(identifier)]
                /\ Returned("verifyBiometricLogin", TRUE, "pending")
    /\ UNCHANGED <<deletedItem, receivedLog, cipherRun, ledgerMem, ledgerSlots, authMem, authSlots, envVars, fileVars,
                   chatHistory, budgetLog, signupLog>>

\* verifyBiometricLogin after the await: an assertion, or null / an exception
VerifyBiometricResult(assertion) ==
    /\ IsGetCeremony
    /\ ceremony' = NoItem
    /\ IF assertion
       THEN /\ userProfile' = ceremony.profile
            /\ isOnboardingComplete' = TRUE
            /\ isAuthenticated' = TRUE
            /\ ssAuth' = TRUE
            /\ lsCurrentUserId' = ceremony.userId
            /\ Returned("verifyBiometricLogin", TRUE, "")
       ELSE /\ Returned("verifyBiometricLogin", FALSE, "")
            /\ UNCHANGED <<userProfile, isOnboardingComplete, isAuthenticated, ssAuth,
                           lsCurrentUserId>>
    /\ UNCHANGED <<deletedItem, receivedLog, cipherRun, ledgerMem, ledgerSlots, loginIdentifier, authError, lsIdentityMap,
                   lsProfiles, envVars, fileVars, chatHistory, budgetLog, signupLog>>

(* ------------------------------- chat --------------------------------- *)
\* addChatMessage: setChatHistory(prev => [...prev, message])
AddChatMessage(role) ==
    /\ Len(chatHistory) < MaxChat
    /\ chatHistory' = Append(chatHistory, [role |-> role])
    /\ Returned("addChatMessage", TRUE, "")
    /\ UNCHANGED <<deletedItem, receivedLog, cipherRun, ceremony, ledgerMem, ledgerSlots, authMem, authSlots, envVars, fileVars,
                   budgetLog, signupLog>>

(* ----------------------------- expenses ------------------------------- *)
\* addExpense: the new record goes first
AddExpense(amount, category, description, date, paymentMethod) ==
    /\ nextId <= MaxIds
    /\ LET newExpense == [id |-> nextId, amount |-> amount, category |-> category,
                          description |-> description, date |-> date,
                          paymentMethod |-> paymentMethod, createdAt |-> clock]
       IN  expenses' = <<newExpense>> \o expenses
    /\ lsExpenses' = expenses'
    /\ nextId' = nextId + 1 /\ clock' = clock + 1
    /\ Returned("addExpense", TRUE, "")
    /\ UNCHANGED <<deletedItem, receivedLog, cipherRun, ceremony, chatHistory, incomes, budgets, lsIncomes, lsBudgets, authMem, authSlots,
                   dayIndex, nextUserId, fileVars, budgetLog, signupLog>>

DeleteExpense(id) ==
    /\ expenses' = WithoutId(expenses, id)
    /\ lsExpenses' = expenses'
    /\ Returned("deleteExpense", TRUE, "")
    /\ UNCHANGED <<deletedItem, receivedLog, cipherRun, ceremony, chatHistory, incomes, budgets, lsIncomes, lsBudgets, authMem, authSlots,
                   envVars, fileVars, budgetLog, signupLog>>

\* everything but the last call stays as it is
NothingChanges ==
    UNCHANGED <<ledgerMem, ledgerSlots, authMem, authSlots, envVars, fileVars, chatHistory,
                deletedItem, ceremony, cipherRun, receivedLog, budgetLog, signupLog>>

\* ExpenseForm.handleSubmit: validate() refuses an empty amount field and an
\* amount that parses to 0 or less; the field of a number input is empty or
\* the text of a number
SubmitExpenseForm(field, category, description, date, paymentMethod) ==
    IF field.blank
    THEN Returned("expenseForm", FALSE, "Amount is required") /\ NothingChanges
    ELSE IF field.value <= 0
    THEN Returned("expenseForm", FALSE, "Amount must be greater than 0") /\ NothingChanges
    ELSE AddExpense(field.value, category, description, date, paymentMethod)

\* handleAddExpenseTool: parseFloat(args.amount) is refused only when it is
\* NaN; missing fields get their defaults
HandleAddExpenseTool(args) ==
    IF args.nan
    THEN Returned("handleAddExpenseTool", FALSE, "Invalid Amount") /\ NothingChanges
    ELSE AddExpense(args.value, "Other", "Expense from AI", today, "Cash")

\* restoreExpense: the record goes last
RestoreExpense(expense) ==
    /\ expenses' = Append(expenses, expense)
    /\ lsExpenses' = expenses'

\* handleDelete of the history screen: the record is kept for the undo toast
\* and deleted; nothing happens when the list shown has no such record
HandleDelete(id) ==
    /\ IndexOfId(expenses, id) # 0
    /\ deletedItem' = [item |-> expenses[IndexOfId(expenses, id)]]
    /\ expenses' = WithoutId(expenses, id)
    /\ lsExpenses' = expenses'
    /\ Returned("handleDelete", TRUE, "")
    /\ UNCHANGED <<receivedLog, cipherRun, ceremony, chatHistory, incomes, budgets,
                   lsIncomes, lsBudgets, authMem, authSlots, envVars, fileVars,
                   budgetLog, signupLog>>

\* an undo that leaves the toast and its record in place
HandleUndo_KeepsItem ==
    /\ deletedItem # NoItem
    /\ RestoreExpense(deletedItem.item)
    /\ Returned("handleUndo", TRUE, "")
    /\ UNCHANGED <<deletedItem, receivedLog, cipherRun, ceremony, chatHistory, incomes,
                   budgets, lsIncomes, lsBudgets, authMem, authSlots, envVars, fileVars,
                   budgetLog, signupLog>>

\* handleUndo: the kept record is restored and the toast cleared
HandleUndo ==
    /\ deletedItem # NoItem
    /\ RestoreExpense(deletedItem.item)
    /\ deletedItem' = NoItem
    /\ Returned("handleUndo", TRUE, "")
    /\ UNCHANGED <<receivedLog, cipherRun, ceremony, chatHistory, incomes, budgets,
                   lsIncomes, lsBudgets, authMem, authSlots, envVars, fileVars,
                   budgetLog, signupLog>>

\* the 4 s timer of the toast fires: setDeletedItem(null)
UndoTimeout ==
    /\ deletedItem # NoItem
    /\ deletedItem' = NoItem
    /\ Returned("undoTimeout", TRUE, "")
    /\ UNCHANGED <<receivedLog, cipherRun, ceremony, chatHistory, ledgerMem, ledgerSlots,
                   authMem, authSlots, envVars, fileVars, budgetLog, signupLog>>

(* ------------------------- backup and import -------------------------- *)
\* a JSON value where the payload holds an array
JsonArray(items) == [isArray |-> TRUE, items |-> items]
\* a JSON value that is anything but an array (null, a number, an object)
NotAnArray == [isArray |-> FALSE, items |-> <<>>]
\* a key the decoded object does not have
Missing == [missing |-> TRUE]

\* a payload that leaves the budgets out
BackupPayload_NoBudgets(profile, exps, incs, buds, stamp) ==
    [metadata |-> [userId |-> profile.id, email |-> profile.email,
                   version |-> "1.0", timestamp |-> stamp],
     userProfile |-> profile,
     data |-> [expenses |-> JsonArray(exps), incomes |-> JsonArray(incs),
               budgets |-> JsonArray(<<>>)]]

\* backupPayload of backupData
BackupPayload(profile, exps, incs, buds, stamp) ==
    [metadata |-> [userId |-> profile.id, email |-> profile.email,
                   version |-> "1.0", timestamp |-> stamp],
     userProfile |-> profile,
     data |-> [expenses |-> JsonArray(exps), incomes |-> JsonArray(incs),
               budgets |-> JsonArray(buds)]]

\* backupData: without a profile email it alerts and returns; otherwise the
\* encrypted payload is handed to the mail / share service.  (A backup is not
\* taken while a file read is in flight, so the picked file stays what it was.)
BackupData ==
    /\ pendingImport = NoItem
    /\ IF userProfile = NoProfile \/ userProfile.email = ""
       THEN /\ Returned("backupData", FALSE, "Email is required for backups.")
            /\ UNCHANGED <<backupFile, backupLog>>
       ELSE /\ backupFile' = EncryptData(BackupPayload(userProfile, expenses, incomes,
                                                       budgets, clock))
            /\ backupLog' = [userId |-> userProfile.id, expenses |-> expenses,
                             incomes |-> incomes, budgets |-> budgets]
            /\ Returned("backupData", TRUE, "")
    /\ UNCHANGED <<deletedItem, receivedLog, cipherRun, ceremony, chatHistory, ledgerMem, ledgerSlots, authMem, authSlots, envVars, pendingImport,
                   budgetLog, signupLog>>

\* The files a user can pick in the import dialog: the delivered backup, the
\* same backup damaged or edited, a backup of another account, any other file.
FileKinds == {"backup", "garbage", "noMetadata", "noData", "foreign", "incomesNotArray"}

\* the text FileReader.readAsText yields for the picked file
PickedFile(kind) ==
    IF kind = "garbage" \/ backupFile = NoItem THEN [garbage |-> TRUE]
    ELSE LET payload == DecryptData(backupFile)
         IN  IF kind = "backup" THEN backupFile
             ELSE IF kind = "noMetadata"
                  THEN EncryptData([payload EXCEPT !.metadata = Missing])
             ELSE IF kind = "noData" THEN EncryptData([payload EXCEPT !.data = Missing])
             ELSE IF kind = "noProfile"
                  THEN EncryptData([payload EXCEPT !.userProfile = Missing])
             ELSE IF kind = "foreign"
                  THEN EncryptData([payload EXCEPT !.metadata.userId = "another-account",
                                                   !.userProfile.id = "another-account"])
             ELSE EncryptData([payload EXCEPT !.data.incomes = NotAnArray])

\* which handler started the read that is in flight
IsImportRead == "ownerId" \in DOMAIN pendingImport
IsRestoreRead == "restore" \in DOMAIN pendingImport

\* importData(file): the FileReader is started; the onload closure holds the
\* userProfile of the render the handler was created in
ImportData ==
    /\ pendingImport = NoItem
    /\ pendingImport' = [ownerId |-> userProfile.id]
    /\ Returned("importData", TRUE, "pending")
    /\ UNCHANGED <<deletedItem, receivedLog, cipherRun, ceremony, chatHistory, ledgerMem, ledgerSlots, authMem, authSlots, envVars, backupFile, backupLog,
                   budgetLog, signupLog>>

\* !decrypted || !decrypted.metadata || !decrypted.data
InvalidBackupFormat(decrypted) ==
    \/ decrypted = Null
    \/ decrypted.metadata = Missing
    \/ decrypted.data = Missing

\* an ownership check that accepts every payload
OwnershipMismatch_Never(decrypted, ownerId) == FALSE

\* decrypted.metadata.userId !== userProfile?.id
OwnershipMismatch(decrypted, ownerId) == decrypted.metadata.userId # ownerId

\* if (Array.isArray(section)) setX(section): a section that is no array leaves
\* the collection as it is
ImportedSection(section, current) ==
    IF section.isArray THEN section.items ELSE current

\* reader.onload of importData, for the file of the given kind
ImportOnLoad(kind) ==
    /\ IsImportRead
    /\ kind # "garbage" => backupFile # NoItem
    /\ pendingImport' = NoItem
    /\ LET decrypted == DecryptData(PickedFile(kind))
       IN  IF InvalidBackupFormat(decrypted)
           THEN /\ Returned("importData", FALSE, "Invalid backup file format")
                /\ UNCHANGED <<ledgerMem, ledgerSlots, receivedLog>>
           ELSE IF OwnershipMismatch(decrypted, pendingImport.ownerId)
           THEN /\ Returned("importData", FALSE,
                            "This backup does not belong to the current user profile.")
                /\ UNCHANGED <<ledgerMem, ledgerSlots, receivedLog>>
           ELSE /\ expenses' = ImportedSection(decrypted.data.expenses, expenses)
                /\ incomes' = ImportedSection(decrypted.data.incomes, incomes)
                /\ budgets' = ImportedSection(decrypted.data.budgets, budgets)
                /\ lsExpenses' = expenses' /\ lsIncomes' = incomes' /\ lsBudgets' = budgets'
                /\ receivedLog' = IF decrypted.data.incomes.isArray
                                  THEN [receivedLog EXCEPT !.sinceReplaced = {}]
                                  ELSE receivedLog
                /\ Returned("importData", TRUE, "")
    /\ UNCHANGED <<deletedItem, cipherRun, ceremony, chatHistory, authMem, authSlots, envVars, backupFile, backupLog, budgetLog, signupLog>>

\* reader.onerror of importData
ImportOnError ==
    /\ IsImportRead
    /\ pendingImport' = NoItem
    /\ Returned("importData", FALSE, "read error")
    /\ UNCHANGED <<deletedItem, receivedLog, cipherRun, ceremony, chatHistory, ledgerMem, ledgerSlots, authMem, authSlots, envVars, backupFile, backupLog,
                   budgetLog, signupLog>>

(* ------------------------- full account restore ---------------------- *)
\* the files offered to restoreUserFromBackup: those of the import dialog and
\* a backup without the embedded profile
RestoreFileKinds == FileKinds \cup {"noProfile"}

\* restoreUserFromBackup(file): the FileReader is started
RestoreUserFromBackup ==
    /\ pendingImport = NoItem
    /\ pendingImport' = [restore |-> TRUE]
    /\ Returned("restoreUserFromBackup", TRUE, "pending")
    /\ UNCHANGED <<deletedItem, receivedLog, cipherRun, ceremony, chatHistory, ledgerMem, ledgerSlots, authMem, authSlots, envVars, backupFile, backupLog,
                   budgetLog, signupLog>>

\* !decrypted || !decrypted.metadata || !decrypted.data || !decrypted.userProfile
InvalidRestoreFile(decrypted) ==
    \/ InvalidBackupFormat(decrypted)
    \/ decrypted.userProfile = Missing

\* "Update Identity Map" of restoreUserFromBackup: mobile and email are bound
\* to the restored id, whatever they were bound to
RebindIdentifiers(map, profile) ==
    LET m1 == IF profile.mobile # "" THEN Put(map, profile.mobile, profile.id) ELSE map
    IN  IF profile.email # "" THEN Put(m1, profile.email, profile.id) ELSE m1

\* a restore that sets a collection only when the section is an array
RestoredSection_KeepCurrent(section, current) ==
    IF section.isArray THEN section.items ELSE current

\* if (Array.isArray(section)) setX(section); else setX([]);
RestoredSection(section, current) ==
    IF section.isArray THEN section.items ELSE <<>>

\* reader.onload of restoreUserFromBackup, for the file of the given kind.
\* updateProfileState runs first; when the profile slot cannot be decoded it
\* throws after setUserProfile, and the catch resolves false.
RestoreOnLoad(kind) ==
    /\ IsRestoreRead
    /\ kind # "garbage" => backupFile # NoItem
    /\ pendingImport' = NoItem
    /\ LET decrypted == DecryptData(PickedFile(kind))
       IN  IF InvalidRestoreFile(decrypted)
           THEN /\ Returned("restoreUserFromBackup", FALSE,
                            "Invalid backup file or missing profile data.")
                /\ UNCHANGED <<ledgerMem, ledgerSlots, authMem, authSlots, receivedLog>>
           ELSE IF ~ProfileStoreReadable
           THEN /\ userProfile' = decrypted.userProfile
                /\ Returned("restoreUserFromBackup", FALSE, "TypeError caught")
                /\ UNCHANGED <<ledgerMem, ledgerSlots, isAuthenticated, isOnboardingComplete,
                               loginIdentifier, authError, authSlots, receivedLog>>
           ELSE LET restoredProfile == decrypted.userProfile
                    data == decrypted.data
                IN  /\ userProfile' = restoredProfile
                    /\ lsProfiles' = EncryptData(Put(ProfilesOf(lsProfiles),
                                                     restoredProfile.id, restoredProfile))
                    /\ lsIdentityMap' = RebindIdentifiers(lsIdentityMap, restoredProfile)
                    /\ lsCurrentUserId' = restoredProfile.id
                    /\ expenses' = RestoredSection(data.expenses, expenses)
                    /\ incomes' = RestoredSection(data.incomes, incomes)
                    /\ budgets' = RestoredSection(data.budgets, budgets)
                    /\ lsExpenses' = expenses' /\ lsIncomes' = incomes' /\ lsBudgets' = budgets'
                    /\ isAuthenticated' = TRUE
                    /\ isOnboardingComplete' = TRUE
                    /\ ssAuth' = TRUE
                    /\ receivedLog' = [receivedLog EXCEPT !.sinceReplaced = {}]
                    /\ Returned("restoreUserFromBackup", TRUE, "")
                    /\ UNCHANGED <<loginIdentifier, authError>>
    /\ UNCHANGED <<deletedItem, cipherRun, ceremony, chatHistory, envVars, backupFile, backupLog, budgetLog, signupLog>>

\* reader.onerror of restoreUserFromBackup
RestoreOnError ==
    /\ IsRestoreRead
    /\ pendingImport' = NoItem
    /\ Returned("restoreUserFromBackup", FALSE, "read error")
    /\ UNCHANGED <<deletedItem, receivedLog, cipherRun, ceremony, chatHistory, ledgerMem, ledgerSlots, authMem, authSlots, envVars, backupFile, backupLog,
                   budgetLog, signupLog>>

(* ------------------------ income specification ------------------------ *)
\* what the income form submits: amount, category, due date, recurrence
IncomeFormInputs ==
    { <<100, "Rent",   20240131, "Monthly">>,
      <<100, "Salary", 20240115, "Monthly">>,
      <<250, "Salary", 20240229, "Yearly">>,
      <<250, "Rent",   20240115, "None">> }

NextIncome ==
    \/ LoginScreenShown /\ StartSignup("a@b.com")
    \/ OnboardingScreenShown /\ CompleteOnboarding("Asha", "9876543210", "a@b.com", "Passw0rd!")
    \/ MainAppShown /\ \E f \in IncomeFormInputs :
          AddIncome(f[1], f[2], "payer", f[3], f[4],
                    IF f[2] = "Rent" THEN "9000000001" ELSE NoContact)
    \/ MainAppShown /\ \E id \in 1..MaxIds : DeleteIncome(id)
    \/ MainAppShown /\ \E id \in 1..MaxIds : MarkIncomeReceived(id)
    \/ ReloadApp
    \/ AdvanceDay

SpecIncome == Init /\ [][NextIncome]_vars

(* ----------------------- income lifecycle claims ---------------------- *)
IdsOf(s) == {s[k].id : k \in 1..Len(s)}

\* what markIncomeReceived(id) must have done to the incomes collection
MarkReceivedPost(id) ==
    LET k == IndexOfId(incomes, id)
    IN  IF k = 0 THEN incomes' = incomes
        ELSE LET orig == incomes[k]
                 grows == IF orig.recurrence \in {"Monthly", "Yearly"} THEN 1 ELSE 0
                 added == {j \in 1..Len(incomes') : incomes'[j].id \notin IdsOf(incomes)}
             IN  /\ Len(incomes') = Len(incomes) + grows
                 /\ Cardinality(added) = grows
                 /\ \E j \in 1..Len(incomes') :
                       /\ incomes'[j] = [orig EXCEPT !.status = "Received", !.date = today]
                       /\ \A i \in 1..Len(incomes') : incomes'[i].id = id => i = j
                 /\ \A j \in added :
                       /\ incomes'[j].id >= nextId
                       /\ incomes'[j].status = "Expected"
                       /\ incomes'[j].category = orig.category
                       /\ incomes'[j].source = orig.source
                       /\ incomes'[j].recurrence = orig.recurrence
                       /\ incomes'[j].amount = orig.amount
                       /\ incomes'[j].tenantContact = orig.tenantContact
                 /\ \A i \in 1..Len(incomes) :
                       incomes[i].id # id => \E j \in 1..Len(incomes') : incomes'[j] = incomes[i]

\* C5: markReceived(id) on an existing income makes that record Received with
\* date = today and adds exactly one new record when the recurrence is Monthly
\* or Yearly and none when it is None; the new record has a fresh id, status
\* Expected and the category, source, recurrence, amount and tenant contact of
\* the original.  With no record of that id the collection is unchanged.
C5_MarkReceived ==
    [][\A id \in 1..MaxIds : MarkIncomeReceived(id) => MarkReceivedPost(id)]_vars

\* C5 witness: a recurring Overdue rent was marked received; its Expected
\* successor stands first, the Received copy second
C5_Witness ==
    /\ lastCall.op = "markIncomeReceived" /\ lastCall.ok
    /\ Len(incomes) >= 2
    /\ incomes[1].status = "Expected" /\ incomes[1].tenantContact # NoContact
    /\ incomes[2].status = "Received" /\ incomes[2].date = today
    /\ incomes[2].recurrence = "Monthly"

\* C21: after markReceived(id) on an existing record the collection reads:
\* the newly generated occurrence (when one was generated), then the updated
\* Received record, then every other record, unchanged and in its previous
\* relative order.
C21_MarkReceivedOrder ==
    [][\A id \in 1..MaxIds :
          (MarkIncomeReceived(id) /\ IndexOfId(incomes, id) # 0) =>
              LET grows == IF incomes[IndexOfId(incomes, id)].recurrence = "None"
                           THEN 0 ELSE 1
                  Other(r) == r.id # id
              IN  /\ Len(incomes') = Len(incomes) + grows
                  /\ grows = 1 => incomes'[1].id \notin IdsOf(incomes)
                  /\ incomes'[grows + 1].id = id
                  /\ incomes'[grows + 1].status = "Received"
                  /\ SubSeq(incomes', grows + 2, Len(incomes'))
                        = SelectSeq(incomes, Other)]_vars

\* C21 witness: the older of two records, the second in the list, was marked
\* received; its successor stands first, it stands second, the newer record
\* that was first stands third
C21_Witness ==
    /\ lastCall.op = "markIncomeReceived" /\ lastCall.ok
    /\ Len(incomes) = 3
    /\ incomes[1].id = 3 /\ incomes[1].status = "Expected"
    /\ incomes[2].id = 1 /\ incomes[2].status = "Received"
    /\ incomes[3].id = 2 /\ incomes[3].status # "Received"

\* C26: markReceived(id) on an income whose status is already Received
\* leaves the incomes collection unchanged, so a recurring income yields at
\* most one next occurrence per received record however often it is called.
C26_MarkReceivedIdempotent ==
    [][\A id \in 1..MaxIds :
          (/\ MarkIncomeReceived(id)
           /\ IndexOfId(incomes, id) # 0
           /\ incomes[IndexOfId(incomes, id)].status = "Received")
          => incomes' = incomes]_vars

\* the date one calendar month after d, the day of month kept
SameDayNextMonth(d) ==
    IF MonthOf(d) = 12 THEN MkDate(YearOf(d) + 1, 1, DayOf(d))
    ELSE MkDate(YearOf(d), MonthOf(d) + 1, DayOf(d))

\* the date one calendar year after d, month and day kept
SameDayNextYear(d) == MkDate(YearOf(d) + 1, MonthOf(d), DayOf(d))

\* C6: the next occurrence generated by markReceived is dated from the
\* original due date: for Monthly, the same day of month of the immediately
\* following calendar month; for Yearly, the same month and day of the
\* following year; for every valid due date, days 29 to 31 and 29 February
\* included.
C6_NextDate ==
    [][\A id \in 1..MaxIds : MarkIncomeReceived(id) =>
          LET k == IndexOfId(incomes, id)
          IN  (k # 0 /\ incomes[k].recurrence # "None") =>
                 /\ incomes'[1].id \notin IdsOf(incomes)
                 /\ incomes'[1].date =
                       IF incomes[k].recurrence = "Monthly"
                       THEN SameDayNextMonth(incomes[k].date)
                       ELSE SameDayNextYear(incomes[k].date)]_vars

\* C7: loading the store turns every income that is Expected and dated
\* strictly before today into Overdue, persists the result and leaves every
\* other record as it was; loading again on the same day changes nothing.
C7_LoadReconciles ==
    [][ReloadApp =>
          /\ Len(incomes') = Len(lsIncomes)
          /\ \A k \in 1..Len(lsIncomes) :
                IF lsIncomes[k].status = "Expected" /\ lsIncomes[k].date < today
                THEN incomes'[k] = [lsIncomes[k] EXCEPT !.status = "Overdue"]
                ELSE incomes'[k] = lsIncomes[k]
          /\ lsIncomes' = incomes'
          /\ \A k \in 1..Len(incomes') :
                ~(incomes'[k].status = "Expected" /\ incomes'[k].date < today)
          /\ (lastCall.op = "load" =>
                 incomes' = incomes /\ lsIncomes' = lsIncomes /\ ~lastCall'.ok)]_vars

\* C7 witness: a load found changes, an Overdue record now sits next to a
\* record due today that stayed Expected
C7_Witness ==
    /\ lastCall.op = "load" /\ lastCall.ok
    /\ \E k \in 1..Len(incomes) : incomes[k].status = "Overdue"
    /\ \E k \in 1..Len(incomes) : incomes[k].status = "Expected" /\ incomes[k].date = today
    /\ lsIncomes = incomes

(* ------------------------------ budgets ------------------------------- *)
\* prev.filter(b => b.category !== category)
WithoutCategory(s, category) ==
    LET Keep(b) == b.category # category IN SelectSeq(s, Keep)

\* an updater that appends without removing the prior entry
BudgetsAfterSet_NoFilter(prev, category, limit) ==
    prev \o <<[category |-> category, limit |-> limit]>>

\* the array setBudget's updater returns: [...filtered, { category, limit }]
BudgetsAfterSet(prev, category, limit) ==
    WithoutCategory(prev, category) \o <<[category |-> category, limit |-> limit]>>

SetBudget(category, limit) ==
    /\ budgets' = BudgetsAfterSet(budgets, category, limit)
    /\ lsBudgets' = budgets'
    /\ budgetLog' = [c \in DOMAIN budgetLog \cup {category} |->
                        IF c = category THEN limit ELSE budgetLog[c]]
    /\ Returned("setBudget", TRUE, "")
    /\ UNCHANGED <<deletedItem, receivedLog, cipherRun, ceremony, chatHistory, expenses, incomes, lsExpenses, lsIncomes, authMem, authSlots,
                   envVars, fileVars, signupLog>>

\* budgets.find(b => b.category === category)?.limit || 0
GetBudget(category) ==
    IF \E k \in 1..Len(budgets) : budgets[k].category = category
    THEN LET k == CHOOSE k \in 1..Len(budgets) :
                     /\ budgets[k].category = category
                     /\ \A j \in 1..(k - 1) : budgets[j].category # category
         IN  budgets[k].limit
    ELSE 0

NextBudget ==
    \/ LoginScreenShown /\ StartSignup("a@b.com")
    \/ OnboardingScreenShown /\ CompleteOnboarding("Asha", "9876543210", "a@b.com", "Passw0rd!")
    \/ MainAppShown /\ \E c \in BudgetCategories, l \in Limits : SetBudget(c, l)
    \/ ReloadApp

SpecBudget == Init /\ [][NextBudget]_vars

\* C8: after any sequence of setBudget calls, repeats included, budgets holds
\* exactly one entry for each category ever set, carrying the limit of the most
\* recent call for it, and getBudget returns that limit (0 if never set).
C8_OneBudgetPerCategory ==
    \A c \in BudgetCategories :
        LET entries == {k \in 1..Len(budgets) : budgets[k].category = c}
        IN  IF c \in DOMAIN budgetLog
            THEN /\ Cardinality(entries) = 1
                 /\ \A k \in entries : budgets[k].limit = budgetLog[c]
                 /\ GetBudget(c) = budgetLog[c]
                 /\ lsBudgets = budgets
            ELSE entries = {} /\ GetBudget(c) = 0

\* C8 witness: a category was set again (it moved behind a later one) and a
\* second one was set to 0
C8_Witness ==
    /\ lastCall.op = "setBudget"
    /\ Len(budgets) = 2
    /\ budgets[1].category = "Transport" /\ budgets[1].limit = 0
    /\ budgets[2].category = "Food" /\ budgets[2].limit = 80

(* -------------------------- auth specification ------------------------ *)
NextAuth ==
    \/ LoginScreenShown /\ \E i \in Identifiers : StartSignup(i)
    \/ OnboardingScreenShown /\ \E m \in Mobiles, e \in Emails, p \in Passwords :
          CompleteOnboarding("Asha", m, e, p)
    \/ LoginScreenShown /\ \E i \in Identifiers, p \in Passwords : Login(i, p)
    \/ MainAppShown /\ Logout
    \/ ReloadApp
    \/ ReopenApp

SpecAuth == Init /\ [][NextAuth]_vars

(* ------------------------------ auth claims --------------------------- *)
\* C2: startSignup(identifier) fails if and only if the identifier is already
\* a key of the IdentityMap, and a failing call leaves the authenticated flag,
\* the onboarding flag, the loaded profile, the session flag, the IdentityMap,
\* the profile store and the active user id unchanged.
C2_SignupFailsIffTaken ==
    [][\A i \in Identifiers : StartSignup(i) =>
          /\ lastCall'.op = "startSignup"
          /\ ~lastCall'.ok <=> i \in DOMAIN lsIdentityMap
          /\ ~lastCall'.ok =>
                UNCHANGED <<isAuthenticated, isOnboardingComplete, userProfile, ssAuth,
                            lsIdentityMap, lsProfiles, lsCurrentUserId>>]_vars

\* C2 witness: a signup with a taken identifier was refused on the login
\* screen, while another identifier is still free
C2_Witness ==
    /\ lastCall.op = "startSignup" /\ ~lastCall.ok
    /\ ~isAuthenticated /\ userProfile = NoProfile
    /\ \E i \in Identifiers : i \in DOMAIN lsIdentityMap
    /\ \E i \in Identifiers : i \notin DOMAIN lsIdentityMap

\* C3: for every identifier i and passwords p, q with q # p: after
\* startSignup(i) and completeOnboarding with password p, login(i, p) succeeds,
\* login(i, q) fails with InvalidCredentials, and login with an identifier that
\* has no IdentityMap entry fails with UserNotFound.
C3_SignupThenLogin ==
    (lastCall.op = "completeOnboarding" /\ signupLog # NoItem) =>
        /\ LoginOutcome(signupLog.identifier, signupLog.password) = "ok"
        /\ \A q \in Passwords \ {signupLog.password} :
              LoginOutcome(signupLog.identifier, q) = "Invalid credentials"
        /\ \A j \in Identifiers \ DOMAIN lsIdentityMap, q \in Passwords :
              LoginOutcome(j, q) = "User not found"

\* C4: a login started in the Unauthenticated state moves the session to
\* Authenticated and records the active user id (the id the identifier maps
\* to) exactly when it succeeds; a failed login leaves the session
\* Unauthenticated with no profile loaded and writes neither the active user
\* id nor the session flag.
C4_LoginTransition ==
    [][\A i \in Identifiers, p \in Passwords :
          (~isAuthenticated /\ userProfile = NoProfile /\ Login(i, p)) =>
             /\ lastCall'.op = "login"
             /\ IF lastCall'.ok
                THEN /\ isAuthenticated' /\ isOnboardingComplete' /\ ssAuth'
                     /\ i \in DOMAIN lsIdentityMap
                     /\ lsCurrentUserId' = lsIdentityMap[i]
                     /\ userProfile'.id = lsIdentityMap[i]
                ELSE /\ ~isAuthenticated' /\ userProfile' = NoProfile
                     /\ lsCurrentUserId' = lsCurrentUserId
                     /\ ssAuth' = ssAuth]_vars

\* C4 witness: after the tab was closed with a user signed in, a login with a
\* wrong password failed; the stored active user id is the old one
C4_Witness ==
    /\ lastCall.op = "login" /\ ~lastCall.ok /\ lastCall.err = "Invalid credentials"
    /\ ~isAuthenticated /\ userProfile = NoProfile /\ ~ssAuth
    /\ lsCurrentUserId # NoUser
    /\ IdentityLookup(lsIdentityMap, loginIdentifier) # lsCurrentUserId

\* C14: after a successful startSignup and before completeOnboarding,
\* reloading the application in the same session re-enters the onboarding
\* state (authenticated flag set, onboarding incomplete, no profile loaded)
\* and never the login screen, also when another user's id had been the
\* active user id before the signup started.
C14_ReloadReentersOnboarding ==
    [][/\ \A i \in Identifiers : (StartSignup(i) /\ lastCall'.ok) =>
             (isAuthenticated' /\ ~isOnboardingComplete' /\ userProfile' = NoProfile /\ ssAuth')
       /\ (isAuthenticated /\ ~isOnboardingComplete /\ ReloadApp) =>
             (isAuthenticated' /\ ~isOnboardingComplete' /\ userProfile' = NoProfile)]_vars

\* C14 witness: a second signup was started on a device that holds the profile
\* of the first user, and the page was reloaded: the onboarding form is shown
C14_Witness ==
    /\ lastCall.op = "load"
    /\ isAuthenticated /\ ~isOnboardingComplete /\ userProfile = NoProfile
    /\ signupLog # NoItem /\ signupLog.userId = NoUser
    /\ lsProfiles # NoItem /\ "u1" \in DOMAIN DecryptData(lsProfiles)
    /\ lsCurrentUserId = NoUser

\* C18: completeOnboarding never hands an identifier to another user: every
\* identifier that maps to user u before the call maps to u after it, also
\* when the new profile's mobile or email is an identifier already bound.
C18_BindingKeepsOwner ==
    [][\A m \in Mobiles, e \in Emails, p \in Passwords :
          CompleteOnboarding("Asha", m, e, p) =>
              \A i \in DOMAIN lsIdentityMap :
                  IdentityLookup(lsIdentityMap', i) = lsIdentityMap[i]]_vars

\* C19: after startSignup(i) and completeOnboarding(details), the IdentityMap
\* maps i to the newly generated user id, whatever mobile and email the
\* details carry and whether or not the page was reloaded in between.
C19_SignupIdentifierBound ==
    (lastCall.op = "completeOnboarding" /\ lastCall.ok /\ signupLog # NoItem) =>
        IdentityLookup(lsIdentityMap, signupLog.identifier) = signupLog.userId

(* ------------------------- backup specification ----------------------- *)

NextBackup ==
    \/ LoginScreenShown /\ StartSignup("a@b.com")
    \/ OnboardingScreenShown /\ CompleteOnboarding("Asha", "9876543210", "a@b.com", "Passw0rd!")
    \/ MainAppShown /\ nextId <= MaxBackupIds /\ AddExpense(12, "Food", "Lunch", 20240120, "Cash")
    \/ MainAppShown /\ \E id \in 1..MaxBackupIds : DeleteExpense(id)
    \/ MainAppShown /\ nextId <= MaxBackupIds
          /\ AddIncome(100, "Rent", "payer", 20240131, "None", "9000000001")
    \/ MainAppShown /\ \E id \in 1..MaxBackupIds : DeleteIncome(id)
    \/ MainAppShown /\ \E id \in 1..MaxBackupIds : MarkIncomeReceived(id)
    \/ MainAppShown /\ SetBudget("Food", 50)
    \/ MainAppShown /\ BackupData
    \/ MainAppShown /\ ImportData
    \/ \E kind \in FileKinds : ImportOnLoad(kind)
    \/ ImportOnError

SpecBackup == Init /\ [][NextBackup]_vars

(* ---------------------------- backup claims --------------------------- *)
\* C1: importData applied to a decodable payload whose metadata.userId differs
\* from the id of the authenticated profile returns failure, and expenses,
\* incomes and budgets (in memory and in their slots) are what they were
\* before the call.
C1_OwnershipMismatchRefused ==
    [][\A kind \in FileKinds : ImportOnLoad(kind) =>
          LET decrypted == DecryptData(PickedFile(kind))
          IN  (~InvalidBackupFormat(decrypted)
                 /\ decrypted.metadata.userId # userProfile.id) =>
                 /\ lastCall'.op = "importData" /\ ~lastCall'.ok
                 /\ UNCHANGED <<expenses, incomes, budgets,
                                lsExpenses, lsIncomes, lsBudgets>>]_vars

\* C1 witness: the import of another account's backup was refused while the
\* ledger held records and budgets that the file does not hold
C1_Witness ==
    /\ lastCall = [op |-> "importData", ok |-> FALSE,
                   err |-> "This backup does not belong to the current user profile."]
    /\ isAuthenticated /\ userProfile # NoProfile
    /\ backupLog # NoItem
    /\ expenses # <<>> /\ expenses # backupLog.expenses
    /\ budgets # <<>> /\ backupLog.budgets = <<>>

\* C9: a backup taken in ledger state L, followed by any ledger mutations,
\* followed by importData of that backup while the same user is still the
\* authenticated profile, succeeds and leaves expenses, incomes and budgets
\* equal to L; nothing of the intermediate state is merged in.
C9_BackupRoundTrip ==
    [][(ImportOnLoad("backup") /\ backupLog.userId = userProfile.id) =>
          /\ lastCall' = [op |-> "importData", ok |-> TRUE, err |-> ""]
          /\ expenses' = backupLog.expenses
          /\ incomes' = backupLog.incomes
          /\ budgets' = backupLog.budgets
          /\ lsExpenses' = expenses' /\ lsIncomes' = incomes' /\ lsBudgets' = budgets']_vars

\* C9 witness: the backup held one expense and no budget; afterwards a second
\* record was created and a budget was set, and the import brought L back
C9_Witness ==
    /\ lastCall = [op |-> "importData", ok |-> TRUE, err |-> ""]
    /\ backupLog # NoItem /\ backupLog.userId = userProfile.id
    /\ Len(backupLog.expenses) = 1 /\ backupLog.incomes = <<>> /\ backupLog.budgets = <<>>
    /\ expenses = backupLog.expenses /\ incomes = <<>> /\ budgets = <<>>
    /\ "Food" \in DOMAIN budgetLog
    /\ nextId > 2

\* the collection a payload section stands for: its items, nothing if it is
\* no array
SectionOrEmpty(section) == IF section.isArray THEN section.items ELSE <<>>

\* C10: a successful importData replaces each of the three ledger collections
\* by the corresponding array of the decoded payload, and a payload section
\* that is not an array leaves that collection empty.
C10_ImportReplaces ==
    [][\A kind \in FileKinds : (ImportOnLoad(kind) /\ lastCall'.ok) =>
          LET data == DecryptData(PickedFile(kind)).data
          IN  /\ expenses' = SectionOrEmpty(data.expenses)
              /\ incomes' = SectionOrEmpty(data.incomes)
              /\ budgets' = SectionOrEmpty(data.budgets)]_vars

(* ------------------------ restore specification ----------------------- *)
\* restoreUserFromBackup is offered by the context on every screen
NextRestore ==
    \/ LoginScreenShown /\ StartSignup("a@b.com")
    \/ OnboardingScreenShown /\ CompleteOnboarding("Asha", "9876543210", "a@b.com", "Passw0rd!")
    \/ MainAppShown /\ nextId <= MaxBackupIds /\ AddExpense(12, "Food", "Lunch", 20240120, "Cash")
    \/ MainAppShown /\ nextId <= MaxBackupIds
          /\ AddIncome(100, "Rent", "payer", 20240131, "None", "9000000001")
    \/ MainAppShown /\ SetBudget("Food", 50)
    \/ MainAppShown /\ BackupData
    \/ MainAppShown /\ Logout
    \/ LoginScreenShown /\ \E p \in Passwords : Login("a@b.com", p)
    \/ RestoreUserFromBackup
    \/ \E kind \in RestoreFileKinds : RestoreOnLoad(kind)
    \/ RestoreOnError
    \/ ReopenApp

SpecRestore == Init /\ [][NextRestore]_vars

(* ---------------------------- restore claims -------------------------- *)
\* C11: restoreUserFromBackup on a payload that contains metadata, a profile
\* and a data section succeeds without any ownership check; afterwards the
\* payload's profile is stored under its id in the profile store, its mobile
\* and email map to that id, the active user id is that id, the session is
\* Authenticated with onboarding complete, and the three ledger collections
\* equal the payload's arrays, empty where the section is not an array.
C11_RestoreFullAccount ==
    [][\A kind \in RestoreFileKinds : RestoreOnLoad(kind) =>
          LET decrypted == DecryptData(PickedFile(kind))
          IN  ~InvalidRestoreFile(decrypted) =>
                 LET profile == decrypted.userProfile
                     stored == DecryptData(lsProfiles')
                 IN  /\ lastCall' = [op |-> "restoreUserFromBackup", ok |-> TRUE, err |-> ""]
                     /\ profile.id \in DOMAIN stored /\ stored[profile.id] = profile
                     /\ profile.mobile # "" => IdentityLookup(lsIdentityMap', profile.mobile) = profile.id
                     /\ profile.email # "" => IdentityLookup(lsIdentityMap', profile.email) = profile.id
                     /\ lsCurrentUserId' = profile.id
                     /\ isAuthenticated' /\ isOnboardingComplete' /\ ssAuth'
                     /\ userProfile' = profile
                     /\ expenses' = SectionOrEmpty(decrypted.data.expenses)
                     /\ incomes' = SectionOrEmpty(decrypted.data.incomes)
                     /\ budgets' = SectionOrEmpty(decrypted.data.budgets)
                     /\ lsExpenses' = expenses' /\ lsIncomes' = incomes'
                     /\ lsBudgets' = budgets']_vars

\* C11 witness: on the login screen, the backup of an account of another id
\* was restored: its profile is active next to the local one, the local
\* identifiers now lead to it, and the ledger holds the backup's records
C11_Witness ==
    /\ lastCall = [op |-> "restoreUserFromBackup", ok |-> TRUE, err |-> ""]
    /\ userProfile.id = "another-account" /\ lsCurrentUserId = "another-account"
    /\ isAuthenticated /\ isOnboardingComplete
    /\ DOMAIN DecryptData(lsProfiles) = {"u1", "another-account"}
    /\ IdentityLookup(lsIdentityMap, "a@b.com") = "another-account"
    /\ expenses # <<>> /\ incomes # <<>>

(* ------------------------ session specification ----------------------- *)
\* one account with a ledger and a chat, signing out and in, reloading and
\* reopening the app; logout is the same context function on every screen
NextSession ==
    \/ LoginScreenShown /\ StartSignup("a@b.com")
    \/ OnboardingScreenShown /\ CompleteOnboarding("Asha", "9876543210", "a@b.com", "Passw0rd!")
    \/ MainAppShown /\ AddExpense(12, "Food", "Lunch", 20240120, "Cash")
    \/ MainAppShown /\ AddIncome(100, "Rent", "payer", 20240229, "Monthly", "9000000001")
    \/ MainAppShown /\ SetBudget("Food", 50)
    \/ MainAppShown /\ \E role \in {"user", "model"} : AddChatMessage(role)
    \/ Logout
    \/ LoginScreenShown /\ \E i \in {"a@b.com", "9876543210"}, p \in Passwords : Login(i, p)
    \/ ReloadApp
    \/ ReopenApp
    \/ AdvanceDay

SpecSession == Init /\ [][NextSession]_vars

(* ---------------------------- session claims -------------------------- *)
\* C12: logout from any session state yields Unauthenticated with no profile
\* in memory, the session flag removed and the chat history empty, and leaves
\* expenses, incomes and budgets (in memory and in their slots), the
\* IdentityMap and the encrypted profile store unchanged.
C12_LogoutFrame ==
    [][Logout =>
          /\ ~isAuthenticated' /\ userProfile' = NoProfile
          /\ ~ssAuth' /\ chatHistory' = <<>>
          /\ UNCHANGED <<expenses, incomes, budgets, lsExpenses, lsIncomes, lsBudgets,
                         lsIdentityMap, lsProfiles>>]_vars

\* C12 witness: signed out with records, a budget, identifiers and a profile
\* still in place
C12_Witness ==
    /\ lastCall.op = "logout"
    /\ ~isAuthenticated /\ userProfile = NoProfile /\ ~ssAuth /\ chatHistory = <<>>
    /\ expenses # <<>> /\ incomes # <<>> /\ budgets # <<>>
    /\ lsExpenses = expenses /\ lsIncomes = incomes /\ lsBudgets = budgets
    /\ DOMAIN lsIdentityMap = {"a@b.com", "9876543210"}
    /\ lsProfiles # NoItem

\* what C13 says of a reopen apart from the ledger slots, and of the login
\* that follows it
ReopenKeepsAccounts ==
    /\ ~isAuthenticated' /\ ~ssAuth' /\ userProfile' = NoProfile
    /\ UNCHANGED <<lsIdentityMap, lsProfiles>>
    /\ \A i \in DOMAIN lsIdentityMap :
          LET profiles == ProfilesOf(lsProfiles)
          IN  lsIdentityMap[i] \in DOMAIN profiles =>
                 LoginOutcome(i, profiles[lsIdentityMap[i]].password)' = "ok"

LoginReattaches(i) ==
    /\ userProfile' = ProfilesOf(lsProfiles)[lsIdentityMap[i]]
    /\ isAuthenticated' /\ isOnboardingComplete'
    /\ UNCHANGED <<lsIdentityMap, lsProfiles, lsExpenses, lsIncomes, lsBudgets>>
    /\ expenses' = lsExpenses /\ incomes' = lsIncomes /\ budgets' = lsBudgets

\* C13 as stated: after the application is closed and reopened the session is
\* Unauthenticated whatever it was before, while the IdentityMap, the
\* encrypted profile store and the three ledger slots hold what they held
\* before the close, so a later login with valid credentials reattaches to
\* the same data.
C13_ReopenKeepsSlots ==
    [][/\ ReopenApp => (ReopenKeepsAccounts
                          /\ UNCHANGED <<lsExpenses, lsIncomes, lsBudgets>>)
       /\ \A i \in Identifiers, p \in Passwords :
             (lastCall.op = "load" /\ Login(i, p) /\ lastCall'.ok) => LoginReattaches(i)]_vars

\* C13 amended: as C13, except that the incomes slot holds what it held with
\* every record that was Expected and dated before today turned Overdue (the
\* load's reconciliation); the expenses and budgets slots are unchanged.
C13_ReopenReconciled ==
    [][/\ ReopenApp => (ReopenKeepsAccounts
                          /\ UNCHANGED <<lsExpenses, lsBudgets>>
                          /\ lsIncomes' = ReconcileOverdue(lsIncomes, today))
       /\ \A i \in Identifiers, p \in Passwords :
             (lastCall.op = "load" /\ Login(i, p) /\ lastCall'.ok) => LoginReattaches(i)]_vars

\* C13 witness: the tab was closed with the user signed in and opened on a
\* later day; nobody is signed in, the stored income has become Overdue, and a
\* login with the stored password would succeed
C13_Witness ==
    /\ lastCall = [op |-> "load", ok |-> TRUE, err |-> ""]
    /\ ~isAuthenticated /\ ~ssAuth /\ userProfile = NoProfile
    /\ lsCurrentUserId = "u1"
    /\ lsIncomes # <<>> /\ lsIncomes[1].status = "Overdue" /\ lsExpenses # <<>>
    /\ LoginOutcome("a@b.com", "Passw0rd!") = "ok"

(* ----------------------- biometric specification ---------------------- *)
\* the platform prompt of a WebAuthn request takes the input focus, so the
\* screens' handlers wait until the request has ended
NextBiometric ==
    \/ LoginScreenShown /\ ceremony = NoItem /\ \E i \in Identifiers : StartSignup(i)
    \/ OnboardingScreenShown /\ \E e \in Emails :
          CompleteOnboarding("Asha", "9876543210", e, "Passw0rd!")
    \/ MainAppShown /\ ~userProfile.biometricEnabled /\ RegisterBiometric
    \/ \E created \in BOOLEAN : RegisterBiometricResult(created)
    \/ MainAppShown /\ ceremony = NoItem /\ DisableBiometric
    \/ LoginScreenShown /\ \E i \in Identifiers : VerifyBiometricLogin(i)
    \/ \E assertion \in BOOLEAN : VerifyBiometricResult(assertion)
    \/ LoginScreenShown /\ ceremony = NoItem
          /\ \E i \in Identifiers, p \in Passwords : Login(i, p)
    \/ MainAppShown /\ ceremony = NoItem /\ Logout
    \/ ReloadApp
    \/ ReopenApp

SpecBiometric == Init /\ [][NextBiometric]_vars

(* --------------------------- biometric claims ------------------------- *)
\* the auth state C15 speaks of
AuthState == <<isAuthenticated, userProfile, lsCurrentUserId, ssAuth>>

\* the identifier leads to a stored profile with biometric login switched on
\* and a credential id
BiometricEnabledFor(i) ==
    LET profile == BoundProfile(i)
    IN  profile # NoProfile /\ profile.biometricEnabled /\ profile.biometricCredentialId # ""

NextReset ==
    \/ LoginScreenShown /\ \E i \in Identifiers : StartSignup(i)
    \/ OnboardingScreenShown /\ \E e \in Emails, p \in Passwords :
          CompleteOnboarding("Asha", "9876543210", e, p)
    \/ LoginScreenShown /\ \E i \in Identifiers, p \in Passwords : Login(i, p)
    \/ LoginScreenShown /\ \E i \in Identifiers, p \in Passwords : ResetPassword(i, p)
    \/ MainAppShown /\ Logout
    \/ LoginScreenShown /\ \E how \in {"undecodable", "removed", "emptied"} :
          ProfileSlotDamaged(how)
    \/ ReopenApp

SpecReset == Init /\ [][NextReset]_vars

(* ----------------------------- reset claims --------------------------- *)
\* resetPassword(i, newPassword) cannot find a profile to change
NothingToReset(i) ==
    LET userId == IdentityLookup(lsIdentityMap, i)
    IN  \/ userId = NoUser
        \/ lsProfiles = NoItem
        \/ DecryptData(lsProfiles) = Null
        \/ userId \notin DOMAIN DecryptData(lsProfiles)

\* what C16 says of resetPassword(i, newPassword), the login with the
\* previous password left aside
ResetPasswordPost(i, newPassword) ==
    /\ lastCall'.op = "resetPassword"
    /\ UNCHANGED <<ledgerMem, ledgerSlots, authMem, lsIdentityMap, lsCurrentUserId, ssAuth>>
    /\ IF NothingToReset(i)
       THEN ~lastCall'.ok /\ UNCHANGED lsProfiles
       ELSE LET userId == lsIdentityMap[i]
                before == DecryptData(lsProfiles)
                after == DecryptData(lsProfiles')
            IN  /\ lastCall'.ok
                /\ DOMAIN after = DOMAIN before
                /\ \A u \in DOMAIN before :
                      after[u] = IF u = userId
                                 THEN [before[u] EXCEPT !.password = newPassword]
                                 ELSE before[u]
                /\ LoginOutcome(i, newPassword)' = "ok"

\* the password the profile bound to i had before the call
PreviousPassword(i) == DecryptData(lsProfiles)[lsIdentityMap[i]].password

\* C16 as stated: resetPassword(identifier, newPassword) returns false and
\* modifies nothing when the identifier is unmapped or the profile store is
\* missing, undecodable or lacks the mapped profile; otherwise it returns
\* true, changes only the password field of the mapped profile, and
\* afterwards login(identifier, newPassword) succeeds while login with the
\* previous password fails with InvalidCredentials.
C16_ResetPassword ==
    [][\A i \in Identifiers, p \in Passwords : ResetPassword(i, p) =>
          /\ ResetPasswordPost(i, p)
          /\ ~NothingToReset(i) =>
                \A q \in Passwords : q = PreviousPassword(i) =>
                   LoginOutcome(i, q)' = "Invalid credentials"]_vars

\* C16 amended: as C16, with the login with the previous password failing
\* with InvalidCredentials when the previous password differs from
\* newPassword.
C16_ResetPasswordDistinct ==
    [][\A i \in Identifiers, p \in Passwords : ResetPassword(i, p) =>
          /\ ResetPasswordPost(i, p)
          /\ (~NothingToReset(i) /\ PreviousPassword(i) # p) =>
                \A q \in Passwords : q = PreviousPassword(i) =>
                   LoginOutcome(i, q)' = "Invalid credentials"]_vars

\* C16 witness: with two profiles stored, the password of the second was
\* reset to one that differs from the first profile's
C16_Witness ==
    /\ lastCall = [op |-> "resetPassword", ok |-> TRUE, err |-> ""]
    /\ lsProfiles # NoItem /\ DOMAIN DecryptData(lsProfiles) = {"u1", "u2"}
    /\ DecryptData(lsProfiles)["u1"].password # DecryptData(lsProfiles)["u2"].password
    /\ IdentityLookup(lsIdentityMap, "c@d.com") = "u2"
    /\ LoginOutcome("c@d.com", DecryptData(lsProfiles)["u2"].password) = "ok"

(* ------------------- the cipher, byte by byte -------------------------- *)
\* The stores above use EncryptData/DecryptData as a sealed wrapper.  This
\* section follows encryptData and decryptData through every conversion:
\* JSON text, UTF-8 bytes, XOR with the key, base64 text, and back.
\* A value is a string (a sequence of code points); objects and arrays
\* serialise to ASCII punctuation around such strings.

\* textEncoder.encode(SECRET_KEY), SECRET_KEY = "kanakku_offline_secret_key"
KeyBytes ==
    <<107, 97, 110, 97, 107, 107, 117, 95, 111, 102, 102, 108, 105, 110,
      101, 95, 115, 101, 99, 114, 101, 116, 95, 107, 101, 121>>

\* code points of the sampled values: " \ k e-acute, Tamil ka, an emoji, : }
CodePoints == <<34, 92, 107, 233, 2965, 128512, 58, 125>>
Strides == {1, 3, 5}

\* the value of n code points read off CodePoints from offset, by stride
SampleText(offset, stride, n) ==
    [k \in 1..n |->
        CodePoints[((offset + stride * (k - 1)) % Len(CodePoints)) + 1]]

\* JSON.stringify of a string: quotes around it, " and \ escaped
RECURSIVE JsonEscape(_)
JsonEscape(value) ==
    IF value = <<>> THEN <<>>
    ELSE IF Head(value) \in {34, 92}
         THEN <<92, Head(value)>> \o JsonEscape(Tail(value))
         ELSE <<Head(value)>> \o JsonEscape(Tail(value))

JsonStringify(value) == <<34>> \o JsonEscape(value) \o <<34>>

\* the body of a JSON string literal is well formed: no bare quote, every
\* backslash followed by a quote or a backslash
RECURSIVE JsonBodyOk(_)
JsonBodyOk(body) ==
    IF body = <<>> THEN TRUE
    ELSE IF Head(body) = 34 THEN FALSE
    ELSE IF Head(body) = 92
         THEN /\ Len(body) >= 2
              /\ body[2] \in {34, 92}
              /\ JsonBodyOk(SubSeq(body, 3, Len(body)))
         ELSE JsonBodyOk(Tail(body))

RECURSIVE JsonUnescape(_)
JsonUnescape(body) ==
    IF body = <<>> THEN <<>>
    ELSE IF Head(body) = 92
         THEN <<body[2]>> \o JsonUnescape(SubSeq(body, 3, Len(body)))
         ELSE <<Head(body)>> \o JsonUnescape(Tail(body))

\* JSON.parse does not throw on this text
JsonParses(text) ==
    /\ Len(text) >= 2
    /\ text[1] = 34
    /\ text[Len(text)] = 34
    /\ JsonBodyOk(SubSeq(text, 2, Len(text) - 1))

JsonParse(text) == JsonUnescape(SubSeq(text, 2, Len(text) - 1))

\* UTF-8 bytes of one code point
Utf8Bytes(cp) ==
    IF cp < 128 THEN <<cp>>
    ELSE IF cp < 2048 THEN <<192 + (cp \div 64), 128 + (cp % 64)>>
    ELSE IF cp < 65536
         THEN <<224 + (cp \div 4096), 128 + ((cp \div 64) % 64),
                128 + (cp % 64)>>
         ELSE <<240 + (cp \div 262144), 128 + ((cp \div 4096) % 64),
                128 + ((cp \div 64) % 64), 128 + (cp % 64)>>

\* textEncoder.encode(jsonString)
RECURSIVE TextEncode(_)
TextEncode(text) ==
    IF text = <<>> THEN <<>>
    ELSE Utf8Bytes(Head(text)) \o TextEncode(Tail(text))

IsContinuation(bytes, i) == i <= Len(bytes) /\ bytes[i] \in 128..191

\* UTF-8 decoding; a byte that starts no well-formed sequence becomes U+FFFD
RECURSIVE Utf8Decode(_)
Utf8Decode(bytes) ==
    IF bytes = <<>> THEN <<>>
    ELSE LET b1 == bytes[1]
             cp2 == (b1 - 192) * 64 + (bytes[2] - 128)
             cp3 == (b1 - 224) * 4096 + (bytes[2] - 128) * 64
                    + (bytes[3] - 128)
             cp4 == (b1 - 240) * 262144 + (bytes[2] - 128) * 4096
                    + (bytes[3] - 128) * 64 + (bytes[4] - 128)
         IN  IF b1 < 128 THEN <<b1>> \o Utf8Decode(Tail(bytes))
             ELSE IF /\ b1 \in 194..223
                     /\ IsContinuation(bytes, 2)
                  THEN <<cp2>> \o Utf8Decode(SubSeq(bytes, 3, Len(bytes)))
             ELSE IF /\ b1 \in 224..239
                     /\ IsContinuation(bytes, 2)
                     /\ IsContinuation(bytes, 3)
                     /\ cp3 >= 2048
                     /\ cp3 \notin 55296..57343
                  THEN <<cp3>> \o Utf8Decode(SubSeq(bytes, 4, Len(bytes)))
             ELSE IF /\ b1 \in 240..244
                     /\ IsContinuation(bytes, 2)
                     /\ IsContinuation(bytes, 3)
                     /\ IsContinuation(bytes, 4)
                     /\ cp4 \in 65536..1114111
                  THEN <<cp4>> \o Utf8Decode(SubSeq(bytes, 5, Len(bytes)))
             ELSE <<65533>> \o Utf8Decode(Tail(bytes))

\* textDecoder.decode(decryptedBytes): a leading byte order mark is dropped
TextDecode(bytes) ==
    LET text == Utf8Decode(bytes)
    IN  IF text # <<>> /\ text[1] = 65279 THEN Tail(text) ELSE text

\* a ^ b on bytes
RECURSIVE BitXor(_, _)
BitXor(a, b) ==
    IF a = 0 THEN b
    ELSE IF b = 0 THEN a
    ELSE ((a + b) % 2) + 2 * BitXor(a \div 2, b \div 2)

\* bytes[i] ^ keyBytes[i % keyBytes.length], the loop of both functions
XorWithKey(bytes) ==
    [i \in 1..Len(bytes) |->
        BitXor(bytes[i], KeyBytes[((i - 1) % Len(KeyBytes)) + 1])]

\* base64 text is a sequence of digits 0..63 and the padding sign
Pad == 64

RECURSIVE Btoa_DropsRemainder(_)
Btoa_DropsRemainder(bytes) ==
    IF Len(bytes) < 3 THEN <<>>
    ELSE <<bytes[1] \div 4,
           (bytes[1] % 4) * 16 + (bytes[2] \div 16),
           (bytes[2] % 16) * 4 + (bytes[3] \div 64),
           bytes[3] % 64>>
         \o Btoa_DropsRemainder(SubSeq(bytes, 4, Len(bytes)))

\* btoa(binary): three bytes to four digits, the last group padded
RECURSIVE Btoa(_)
Btoa(bytes) ==
    IF bytes = <<>> THEN <<>>
    ELSE IF Len(bytes) = 1
         THEN <<bytes[1] \div 4, (bytes[1] % 4) * 16, Pad, Pad>>
    ELSE IF Len(bytes) = 2
         THEN <<bytes[1] \div 4,
                (bytes[1] % 4) * 16 + (bytes[2] \div 16),
                (bytes[2] % 16) * 4,
                Pad>>
    ELSE <<bytes[1] \div 4,
           (bytes[1] % 4) * 16 + (bytes[2] \div 16),
           (bytes[2] % 16) * 4 + (bytes[3] \div 64),
           bytes[3] % 64>>
         \o Btoa(SubSeq(bytes, 4, Len(bytes)))

\* atob first drops one or two padding signs that end a text of 4n signs
StripPadding(chars) ==
    LET n == Len(chars)
    IN  IF n > 0 /\ n % 4 = 0 /\ chars[n] = Pad
        THEN IF chars[n - 1] = Pad THEN SubSeq(chars, 1, n - 2)
             ELSE SubSeq(chars, 1, n - 1)
        ELSE chars

\* atob throws InvalidCharacterError
AtobThrows(chars) ==
    LET digits == StripPadding(chars)
    IN  \/ Len(digits) % 4 = 1
        \/ \E i \in 1..Len(digits) : digits[i] \notin 0..63

RECURSIVE DigitsToBytes(_)
DigitsToBytes(digits) ==
    IF Len(digits) < 2 THEN <<>>
    ELSE IF Len(digits) = 2
         THEN <<digits[1] * 4 + (digits[2] \div 16)>>
    ELSE IF Len(digits) = 3
         THEN <<digits[1] * 4 + (digits[2] \div 16),
                (digits[2] % 16) * 16 + (digits[3] \div 4)>>
    ELSE <<digits[1] * 4 + (digits[2] \div 16),
           (digits[2] % 16) * 16 + (digits[3] \div 4),
           (digits[3] % 4) * 64 + digits[4]>>
         \o DigitsToBytes(SubSeq(digits, 5, Len(digits)))

\* atob(encryptedString), when it does not throw
Atob(chars) == DigitsToBytes(StripPadding(chars))

\* encryptData on a string value
EncryptDataBytes(value) == Btoa(XorWithKey(TextEncode(JsonStringify(value))))

\* decryptData: null for an empty string and whenever atob or JSON.parse throws
DecryptDataBytes(encryptedString) ==
    LET text == TextDecode(XorWithKey(Atob(encryptedString)))
    IN  IF encryptedString = <<>> \/ AtobThrows(encryptedString)
        THEN [null |-> TRUE, value |-> <<>>]
        ELSE IF ~JsonParses(text) THEN [null |-> TRUE, value |-> <<>>]
        ELSE [null |-> FALSE, value |-> JsonParse(text)]

\* nothing has been read back yet
NotDecoded == [done |-> FALSE, null |-> FALSE, value |-> <<>>]

\* a value one code point longer than the last is encrypted
EncryptSample(offset, stride) ==
    /\ Len(cipherRun.text) < MaxTextLen
    /\ cipherRun.text = SampleText(offset, stride, Len(cipherRun.text))
    /\ LET value == SampleText(offset, stride, Len(cipherRun.text) + 1)
       IN  cipherRun' = [text |-> value,
                         cipher |-> EncryptDataBytes(value),
                         decoded |-> NotDecoded]
    /\ Returned("encryptData", TRUE, "")
    /\ UNCHANGED <<deletedItem, receivedLog, ledgerMem, ledgerSlots, authMem, authSlots, envVars,
                   fileVars, chatHistory, ceremony, budgetLog, signupLog>>

\* the ciphertext is read back
DecryptSample ==
    /\ cipherRun.cipher # <<>>
    /\ ~cipherRun.decoded.done
    /\ LET result == DecryptDataBytes(cipherRun.cipher)
       IN  /\ cipherRun' = [cipherRun EXCEPT !.decoded =
                                [done |-> TRUE, null |-> result.null,
                                 value |-> result.value]]
           /\ Returned("decryptData", ~result.null, "")
    /\ UNCHANGED <<deletedItem, receivedLog, ledgerMem, ledgerSlots, authMem, authSlots, envVars,
                   fileVars, chatHistory, ceremony, budgetLog, signupLog>>

NextCipher ==
    \/ \E offset \in 0..(Len(CodePoints) - 1), stride \in Strides :
          EncryptSample(offset, stride)
    \/ DecryptSample

SpecCipher == Init /\ [][NextCipher]_vars

\* C17: whatever value was encrypted, of any byte length against the key's
\* 26 bytes, decryptData of the ciphertext is not null and is that value
C17_CipherRoundTrip ==
    cipherRun.decoded.done =>
        /\ ~cipherRun.decoded.null
        /\ cipherRun.decoded.value = cipherRun.text

\* a value with multi-byte characters whose bytes outrun the key, read back
C17_Witness ==
    /\ cipherRun.decoded.done
    /\ cipherRun.decoded.value = cipherRun.text
    /\ Len(TextEncode(JsonStringify(cipherRun.text))) > Len(KeyBytes)
    /\ \E i \in 1..Len(cipherRun.text) : cipherRun.text[i] = 128512
    /\ \E i \in 1..Len(cipherRun.text) : cipherRun.text[i] = 2965

(* ------------------------ ledger history specification ----------------- *)
\* incomes are added, marked, deleted, reloaded, backed up and brought back
\* by importData and restoreUserFromBackup, while days pass
LedgerFormInputs ==
    { <<100, "Rent", 20240131, "Monthly">>,
      <<250, "Salary", 20240115, "None">> }
LedgerFileKinds == {"backup", "incomesNotArray"}

NextLedger ==
    \/ LoginScreenShown /\ StartSignup("a@b.com")
    \/ OnboardingScreenShown /\ CompleteOnboarding("Asha", "9876543210", "a@b.com", "Passw0rd!")
    \/ MainAppShown /\ nextId <= MaxBackupIds /\ \E f \in LedgerFormInputs :
          AddIncome(f[1], f[2], "payer", f[3], f[4],
                    IF f[2] = "Rent" THEN "9000000001" ELSE NoContact)
    \/ MainAppShown /\ \E id \in 1..MaxIds : DeleteIncome(id)
    \/ MainAppShown /\ nextId <= MaxBackupIds /\ \E id \in 1..MaxIds : MarkIncomeReceived(id)
    \/ MainAppShown /\ BackupData
    \/ MainAppShown /\ ImportData
    \/ \E kind \in LedgerFileKinds : ImportOnLoad(kind)
    \/ MainAppShown /\ backupFile # NoItem /\ Logout
    \/ LoginScreenShown /\ RestoreUserFromBackup
    \/ RestoreOnLoad("backup")
    \/ ReloadApp
    \/ AdvanceDay

SpecLedger == Init /\ [][NextLedger]_vars

(* --------------------------- ledger history claims --------------------- *)
\* the Overdue records held in memory and in the incomes slot
OverdueRecords ==
    {incomes[k] : k \in {j \in 1..Len(incomes) : incomes[j].status = "Overdue"}}
    \cup {lsIncomes[k] : k \in {j \in 1..Len(lsIncomes) : lsIncomes[j].status = "Overdue"}}

\* C20: in every reachable state, every income record with status Overdue has
\* a date strictly before today and has never been marked Received, after any
\* sequence of addIncome, load, markReceived, deleteIncome and restore.
C20_OverdueNeverReceived ==
    \A r \in OverdueRecords : r.date < today /\ r.id \notin receivedLog.ever

\* C20 as the code has it: every Overdue record has a date strictly before
\* today and has not been marked Received since an import or restore last
\* replaced the incomes collection.
C20_OverdueSinceReplaced ==
    \A r \in OverdueRecords : r.date < today /\ r.id \notin receivedLog.sinceReplaced

\* an import has brought back, as Overdue, a record that had been marked
\* Received after the backup was taken
C20_Witness ==
    /\ lastCall.op = "importData" /\ lastCall.ok
    /\ \E r \in OverdueRecords : r.id \in receivedLog.ever /\ r.date < today
    /\ receivedLog.sinceReplaced = {}

(* --------------------------- record id specification ------------------- *)
\* expenses and incomes are added, deleted with and without the undo toast,
\* restored by undo and marked received, across reloads
NextRecords ==
    \/ LoginScreenShown /\ StartSignup("a@b.com")
    \/ OnboardingScreenShown /\ CompleteOnboarding("Asha", "9876543210", "a@b.com", "Passw0rd!")
    \/ MainAppShown /\ AddExpense(12, "Food", "Lunch", 20240120, "Cash")
    \/ MainAppShown /\ \E id \in 1..MaxIds : HandleDelete(id)
    \/ MainAppShown /\ \E id \in 1..MaxIds : DeleteExpense(id)
    \/ MainAppShown /\ HandleUndo
    \/ UndoTimeout
    \/ MainAppShown /\ AddIncome(100, "Rent", "payer", 20240131, "Monthly", "9000000001")
    \/ MainAppShown /\ \E id \in 1..MaxIds : DeleteIncome(id)
    \/ MainAppShown /\ \E id \in 1..MaxIds : MarkIncomeReceived(id)
    \/ MainAppShown /\ Logout
    \/ LoginScreenShown /\ Login("a@b.com", "Passw0rd!")
    \/ ReloadApp

SpecRecords == Init /\ [][NextRecords]_vars

(* ----------------------------- record id claims ------------------------ *)
\* no two positions of the sequence hold the same id
UniqueIds(s) == \A j, k \in 1..Len(s) : s[j].id = s[k].id => j = k

NextFault ==
    \/ LoginScreenShown /\ ceremony = NoItem /\ StartSignup("a@b.com")
    \/ OnboardingScreenShown /\ CompleteOnboarding("Asha", "9876543210", "a@b.com", "Passw0rd!")
    \/ MainAppShown /\ nextId <= MaxBackupIds /\ AddExpense(12, "Food", "Lunch", 20240120, "Cash")
    \/ MainAppShown /\ ceremony = NoItem /\ BackupData
    \/ MainAppShown /\ ~userProfile.biometricEnabled /\ RegisterBiometric
    \/ \E created \in BOOLEAN : RegisterBiometricResult(created)
    \/ MainAppShown /\ ceremony = NoItem /\ ImportData
    \/ \E kind \in {"backup", "garbage"} : ImportOnLoad(kind)
    \/ ImportOnError
    \/ MainAppShown /\ ceremony = NoItem /\ pendingImport = NoItem /\ Logout
    \/ LoginScreenShown /\ ceremony = NoItem /\ pendingImport = NoItem
          /\ ProfileSlotDamaged("undecodable")
    \/ LoginScreenShown /\ ceremony = NoItem /\ \E p \in Passwords : Login("a@b.com", p)
    \/ LoginScreenShown /\ ceremony = NoItem /\ ResetPassword("a@b.com", "Secr3t_pw")
    \/ LoginScreenShown /\ ceremony = NoItem /\ CheckBiometric("a@b.com")
    \/ LoginScreenShown /\ VerifyBiometricLogin("a@b.com")
    \/ \E assertion \in BOOLEAN : VerifyBiometricResult(assertion)
    \/ LoginScreenShown /\ ceremony = NoItem /\ RestoreUserFromBackup
    \/ \E kind \in RestoreFileKinds : RestoreOnLoad(kind)
    \/ RestoreOnError

SpecFault == Init /\ [][NextFault]_vars

(* ------------------------- damaged storage claims ---------------------- *)
\* what a failed restore must leave alone
RestoreFrame ==
    <<userProfile, isAuthenticated, isOnboardingComplete, lsIdentityMap, lsProfiles,
      lsCurrentUserId, expenses, incomes, budgets>>

\* C23: a restoreUserFromBackup call that returns failure for any reason
\* (undecodable file, missing metadata, profile or data section, unreadable
\* profile slot, read error) leaves the in-memory profile, the authenticated
\* and onboarding flags, the IdentityMap, the profile store, the active user
\* id and the three ledger collections exactly as they were.
C23_RestoreAllOrNothing ==
    [][((\E kind \in RestoreFileKinds : RestoreOnLoad(kind)) \/ RestoreOnError)
          /\ ~lastCall'.ok
       => UNCHANGED RestoreFrame]_vars

\* the operations C24 speaks of
GuardedOperations ==
    {"login", "resetPassword", "verifyBiometricLogin", "checkBiometricAvailability",
     "importData", "restoreUserFromBackup"}

\* C24: in every reachable storage state, also with a profile slot that is
\* present but cannot be decoded, login, resetPassword, biometric verify, the
\* biometric availability check and both restore operations end with a
\* success flag or a failure value and never raise an error to their caller.
C24_NeverRaises ==
    lastCall.op \in GuardedOperations => lastCall.err # "TypeError"

(* -------------------------- expense entry specification ---------------- *)
\* the amount field of the form and the amount argument the assistant's
\* add_expense call carries
FormAmounts ==
    { [blank |-> TRUE, value |-> 0], [blank |-> FALSE, value |-> 0],
      [blank |-> FALSE, value |-> 0 - 5], [blank |-> FALSE, value |-> 12] }
ToolAmounts ==
    { [nan |-> TRUE, value |-> 0], [nan |-> FALSE, value |-> 0],
      [nan |-> FALSE, value |-> 0 - 5], [nan |-> FALSE, value |-> 40] }

NextExpense ==
    \/ LoginScreenShown /\ StartSignup("a@b.com")
    \/ OnboardingScreenShown /\ CompleteOnboarding("Asha", "9876543210", "a@b.com", "Passw0rd!")
    \/ MainAppShown /\ \E field \in FormAmounts :
          SubmitExpenseForm(field, "Food", "Lunch", 20240120, "Cash")
    \/ MainAppShown /\ \E args \in ToolAmounts : HandleAddExpenseTool(args)
    \/ MainAppShown /\ \E id \in 1..MaxIds : DeleteExpense(id)
    \/ ReloadApp
    \/ AdvanceDay

SpecExpense == Init /\ [][NextExpense]_vars

(* ----------------------------- expense entry claims -------------------- *)
\* C25: every expense held in the ledger has amount > 0, whether the expense
\* form or the assistant's add-expense action created it.
C25_PositiveAmounts ==
    /\ \A k \in 1..Len(expenses) : expenses[k].amount > 0
    /\ \A k \in 1..Len(lsExpenses) : lsExpenses[k].amount > 0

(* --------------------------- load specification ------------------------ *)
NextLoad ==
    \/ LoginScreenShown /\ StartSignup("a@b.com")
    \/ OnboardingScreenShown /\ CompleteOnboarding("Asha", "9876543210", "a@b.com", "Passw0rd!")
    \/ MainAppShown /\ nextId <= MaxBackupIds /\ AddExpense(40, "Food", "lunch", today, "Cash")
    \/ MainAppShown /\ nextId <= MaxBackupIds /\ \E f \in LedgerFormInputs :
          AddIncome(f[1], f[2], "payer", f[3], f[4],
                    IF f[2] = "Rent" THEN "9000000001" ELSE NoContact)
    \/ MainAppShown /\ \E c \in {"Food", "Other"} : SetBudget(c, 50)
    \/ MainAppShown /\ Logout
    \/ LoginScreenShown /\ Login("a@b.com", "Passw0rd!")
    \/ ReloadApp
    \/ ReopenApp
    \/ AdvanceDay

SpecLoad == Init /\ [][NextLoad]_vars

\* loaded holds the records of stored in the same order, none changed except
\* that an Expected record due before today may have become Overdue
SameButOverdue(stored, loaded) ==
    /\ Len(loaded) = Len(stored)
    /\ \A k \in 1..Len(stored) :
          \/ loaded[k] = stored[k]
          \/ /\ stored[k].status = "Expected" /\ stored[k].date < today
             /\ loaded[k] = [stored[k] EXCEPT !.status = "Overdue"]

\* C27: loading the store never loses persisted ledger data: once the load
\* and the save effects it triggers are done, the in-memory expenses, incomes
\* and budgets and their slots equal what the slots held before the load,
\* apart from the Expected-to-Overdue reconciliation of incomes.
C27_LoadKeepsLedger ==
    [][(ReloadApp \/ ReopenApp) =>
          /\ expenses' = lsExpenses /\ lsExpenses' = lsExpenses
          /\ budgets' = lsBudgets /\ lsBudgets' = lsBudgets
          /\ SameButOverdue(lsIncomes, incomes') /\ lsIncomes' = incomes']_vars

\* a load that found expenses, budgets and an income it had to flip to Overdue
C27_Witness ==
    /\ lastCall.op = "load" /\ lastCall.ok
    /\ Len(expenses) > 0 /\ Len(budgets) > 0
    /\ \E k \in 1..Len(incomes) : incomes[k].status = "Overdue"
    /\ lsExpenses = expenses /\ lsBudgets = budgets /\ lsIncomes = incomes

(* ------------------- pending ceremony specification -------------------- *)
\* the screens stay usable while navigator.credentials.create is pending, so
\* every handler may run between the two halves of registerBiometric
NextCeremony ==
    \/ LoginScreenShown /\ \E i \in Emails : StartSignup(i)
    \/ OnboardingScreenShown /\ \E e \in Emails :
          CompleteOnboarding("Asha", "9876543210", e, "Passw0rd!")
    \/ MainAppShown /\ ~userProfile.biometricEnabled /\ RegisterBiometric
    \/ \E created \in BOOLEAN : RegisterBiometricResult(created)
    \/ MainAppShown /\ SetUserName("Asha K")
    \/ MainAppShown /\ SetCurrency("USD")
    \/ MainAppShown /\ backupFile = NoItem /\ BackupData
    \/ MainAppShown /\ Logout
    \/ LoginScreenShown /\ \E i \in Emails : Login(i, "Passw0rd!")
    \/ LoginScreenShown /\ RestoreUserFromBackup
    \/ RestoreOnLoad("backup")

SpecCeremony == Init /\ [][NextCeremony]_vars

\* C28: in every reachable state where the session is Authenticated with
\* onboarding complete, a profile is loaded in memory and its id equals the
\* persisted active user id, under every interleaving of login, signup,
\* onboarding, logout, settings changes, restore and the completion of a
\* biometric registration ceremony started earlier.
C28_ProfileMatchesActiveUser ==
    (isAuthenticated /\ isOnboardingComplete) =>
        /\ userProfile # NoProfile
        /\ userProfile.id = lsCurrentUserId

\* the profile fields a settings change writes
SettingsOf(profile) == <<profile.name, profile.currency, profile.language>>

\* C29: a profile change made while a biometric registration ceremony is
\* pending is still present in the in-memory profile and in the stored profile
\* after the ceremony completes successfully: registration adds the flag and
\* the credential id and leaves the other fields as they were.
C29_RegistrationKeepsChanges ==
    [][\A uid \in {userProfile.id} :
          (/\ RegisterBiometricResult(TRUE)
           /\ lastCall'.ok
           /\ MainAppShown /\ uid = ceremony.profile.id
           /\ uid = lsCurrentUserId)
          => /\ SettingsOf(userProfile') = SettingsOf(userProfile)
             /\ SettingsOf(StoredProfile(uid))' = SettingsOf(StoredProfile(uid))]_vars

(* ---------------------- shared device specification -------------------- *)
\* two people use the app on one device; each record's free-text field (the
\* description of an expense, the source of an income) is filled with the id
\* of the profile that is signed in when the record is entered
NextDevice ==
    \/ LoginScreenShown /\ \E i \in Emails : StartSignup(i)
    \/ OnboardingScreenShown /\ \E e \in Emails :
          CompleteOnboarding("Asha", "9876543210", e, "Passw0rd!")
    \/ MainAppShown /\ AddExpense(40, "Food", userProfile.id, today, "Cash")
    \/ MainAppShown /\ AddIncome(100, "Rent", userProfile.id, 20240131, "Monthly", NoContact)
    \/ MainAppShown /\ \E id \in 1..MaxIds : DeleteExpense(id)
    \/ MainAppShown /\ \E id \in 1..MaxIds : DeleteIncome(id)
    \/ MainAppShown /\ Logout
    \/ LoginScreenShown /\ \E i \in Emails : Login(i, "Passw0rd!")
    \/ ReloadApp

SpecDevice == Init /\ [][NextDevice]_vars

\* C30: the expenses and incomes visible to an authenticated user contain only
\* records entered while that same user was signed in: records of user A are
\* not visible to a different user B who signs up or logs in after A logs out.
C30_LedgerIsolation ==
    MainAppShown =>
        /\ \A k \in 1..Len(expenses) : expenses[k].description = userProfile.id
        /\ \A k \in 1..Len(incomes) : incomes[k].source = userProfile.id

=============================================================================
